---- MODULE Spec2Model ----
(***************************************************************************)
(* Organic Curve Generator: state store (state.js), render loop (main.js), *)
(* curve geometry (math.js) and rib compositor (view3d.js).                *)
(*                                                                         *)
(* JavaScript Numbers are modelled as IEEE 754 binary64 values with the    *)
(* rounding to nearest, ties to even, of +, -, *, / and Math.sqrt: a       *)
(* result of 2^1024 or more is an infinity, a result below 2^-1022 is      *)
(* rounded to a multiple of 2^-1074, and a zero has a sign.  Math.hypot is *)
(* computed with the normalization by the largest magnitude that V8 does,  *)
(* and x ** 3 as V8 computes it (fdlibm's pow, V8's last division).        *)
(***************************************************************************)
EXTENDS Integers, Sequences, FiniteSets, TLC

---------------------------------------------------------------------------
(* Magnitudes: little-endian sequences of limbs of 14 bits, no high zero.  *)

Base == 2^14

Highest(S) == CHOOSE i \in S : \A j \in S : j <= i

\* a without its high zero limbs
RECURSIVE NatTrim(_)
NatTrim(a) ==
  IF Len(a) = 0 THEN <<>>
  ELSE IF a[Len(a)] # 0 THEN a
  ELSE NatTrim(SubSeq(a, 1, Len(a) - 1))

\* limb i of a, 0 outside of a
Limb(a, i) == IF 1 <= i /\ i <= Len(a) THEN a[i] ELSE 0

\* the magnitude of the integer n, 0 <= n < 2^31
NatOf(n) == NatTrim(<<n % Base, (n \div Base) % Base, n \div (Base * Base)>>)

\* the integer of a magnitude below 2^28
NatValue(a) == Limb(a, 1) + Base * Limb(a, 2)

\* the limbs of the columns c from column k on, each column between -Base
\* and 2^30, with the carry into column k
RECURSIVE NatCarried(_, _, _)
NatCarried(c, k, carry) ==
  IF k > Len(c) THEN (IF carry = 0 THEN <<>> ELSE <<carry>>)
  ELSE <<(c[k] + carry) % Base>> \o NatCarried(c, k + 1, (c[k] + carry) \div Base)

NatAdd(a, b) ==
  IF Len(a) >= Len(b)
  THEN NatCarried([i \in 1..Len(a) |-> a[i] + Limb(b, i)] \o <<>>, 1, 0)
  ELSE NatCarried([i \in 1..Len(b) |-> Limb(a, i) + b[i]] \o <<>>, 1, 0)

\* a - b for a >= b
NatSub(a, b) == NatTrim(NatCarried([i \in 1..Len(a) |-> a[i] - Limb(b, i)] \o <<>>, 1, 0))

\* the order of limbs i and below of a and b: -1, 0, 1
RECURSIVE NatCmpFrom(_, _, _)
NatCmpFrom(a, b, i) ==
  IF i = 0 THEN 0
  ELSE IF a[i] < b[i] THEN -1
  ELSE IF a[i] > b[i] THEN 1
  ELSE NatCmpFrom(a, b, i - 1)

\* -1, 0, 1 as a < b, a = b, a > b
NatCmp(a, b) ==
  IF Len(a) < Len(b) THEN -1
  ELSE IF Len(a) > Len(b) THEN 1
  ELSE NatCmpFrom(a, b, Len(a))

\* a * k for 0 <= k < Base
NatMulSmall(a, k) ==
  IF k = 0 \/ Len(a) = 0 THEN <<>>
  ELSE NatCarried([i \in 1..Len(a) |-> a[i] * k] \o <<>>, 1, 0)

\* column k of the long multiplication of a by b, b of 4 limbs; a with 3
\* zero limbs below it and 4 above
NatColumn(a, b, k) == b[1] * a[k + 3] + b[2] * a[k + 2] + b[3] * a[k + 1] + b[4] * a[k]

NatColumns(a, b, n) == [k \in 1..n |-> NatColumn(a, b, k)] \o <<>>

\* a * b for b of 4 limbs at most: the columns, each below 2^30, carried
NatMulShort(a, b) ==
  NatTrim(NatCarried(NatColumns(<<0, 0, 0>> \o a \o <<0, 0, 0, 0>>, b \o <<0, 0, 0>>,
                                Len(a) + Len(b)), 1, 0))

\* a * b, one of them of 4 limbs at most (a mantissa)
NatMul(a, b) ==
  IF Len(a) = 0 \/ Len(b) = 0 THEN <<>>
  ELSE NatMulShort(IF Len(b) <= Len(a) THEN a ELSE b, IF Len(b) <= Len(a) THEN b ELSE a)

\* the number of bits of x, 1 <= x < Base
BitsOf(x) ==
  IF x < 128
  THEN (IF x < 8 THEN (IF x < 2 THEN 1 ELSE IF x < 4 THEN 2 ELSE 3)
        ELSE IF x < 32 THEN (IF x < 16 THEN 4 ELSE 5)
        ELSE IF x < 64 THEN 6 ELSE 7)
  ELSE (IF x < 1024 THEN (IF x < 256 THEN 8 ELSE IF x < 512 THEN 9 ELSE 10)
        ELSE IF x < 4096 THEN (IF x < 2048 THEN 11 ELSE 12)
        ELSE IF x < 8192 THEN 13 ELSE 14)

\* the number of bits of a
NatBits(a) == IF Len(a) = 0 THEN 0 ELSE 14 * (Len(a) - 1) + BitsOf(a[Len(a)])

\* the number of low zero bits of a # 0
NatLowZeros(a) ==
  LET i == CHOOSE i \in 1..Len(a) : a[i] # 0 /\ \A j \in 1..(i - 1) : a[j] = 0
  IN  14 * (i - 1) + (CHOOSE t \in 0..13 : a[i] % (2^(t + 1)) = 2^t)

\* a * p for a power p of 2 below Base, a with a zero limb below and above it
NatDoubled(a, p) ==
  [i \in 1..(Len(a) - 1) |-> ((a[i + 1] * p) % Base) + (a[i] \div (Base \div p))] \o <<>>

\* a * 2^k
NatShiftLeft(a, k) ==
  IF Len(a) = 0 \/ k = 0 THEN a
  ELSE [i \in 1..(k \div 14) |-> 0]
         \o (IF k % 14 = 0 THEN a ELSE NatTrim(NatDoubled(<<0>> \o a \o <<0>>, 2^(k % 14))))

\* a \div p for a power p of 2 below Base, a with a zero limb above it
NatHalved(a, p) ==
  [i \in 1..(Len(a) - 1) |-> (a[i] \div p) + ((a[i + 1] % p) * (Base \div p))] \o <<>>

\* a \div 2^k
NatShiftRight(a, k) ==
  IF k = 0 THEN a
  ELSE IF k \div 14 >= Len(a) THEN <<>>
  ELSE IF k % 14 = 0 THEN SubSeq(a, (k \div 14) + 1, Len(a))
  ELSE NatTrim(NatHalved(SubSeq(a, (k \div 14) + 1, Len(a)) \o <<0>>, 2^(k % 14)))

\* bit j of a (bit 0 the lowest)
NatBit(a, j) == (Limb(a, (j \div 14) + 1) \div 2^(j % 14)) % 2

\* a bit of a below bit j is set
NatLowBits(a, j) ==
  \/ \E i \in 1..Len(a) : i <= (j \div 14) /\ a[i] # 0
  \/ Limb(a, (j \div 14) + 1) % (2^(j % 14)) # 0

\* the largest q with q * b <= r, for r < Base * b and b with a top limb of
\* Base / 2 or more: q is one of the at most 4 values that the two top limbs
\* of r and the top limb of b leave
NatQuotLimb(b, r) ==
  LET n  == Len(b)
      rt == Limb(r, n + 1) * Base + Limb(r, n)
      up == rt \div b[n]
      hi == IF up > Base - 1 THEN Base - 1 ELSE up
  IN  Highest({q \in (rt \div (b[n] + 1))..hi : NatCmp(NatMulSmall(b, q), r) <= 0})

\* one step of the long division of a by b: limb st.i of a is brought down
NatDivTaken(b, st, r1, d) ==
  [i |-> st.i - 1, r |-> NatSub(r1, NatMulSmall(b, d)), q |-> <<d>> \o st.q]

NatDivDown(b, st, r1) == NatDivTaken(b, st, r1, NatQuotLimb(b, r1))

NatDivStep(a, b, st) == NatDivDown(b, st, NatTrim(<<a[st.i]>> \o st.r))

\* the long division of a by b, limb st.i of a and below still to be brought
\* down, remainder st.r and quotient limbs st.q so far
RECURSIVE NatDivFrom(_, _, _)
NatDivFrom(a, b, st) ==
  IF st.i = 0 THEN [q |-> NatTrim(st.q), r |-> st.r]
  ELSE NatDivFrom(a, b, NatDivStep(a, b, st))

\* quotient q and remainder r of a by b, b with a top limb of Base / 2 or
\* more; the leading Len(b) - 1 limbs of a are less than b: the division
\* starts below them
NatDivMod(a, b) ==
  IF Len(a) < Len(b) THEN [q |-> <<>>, r |-> a]
  ELSE NatDivFrom(a, b, [i |-> Len(a) - Len(b) + 1,
                         r |-> SubSeq(a, Len(a) - Len(b) + 2, Len(a)), q |-> <<>>])

\* the integer square root of v, 2^26 <= v < 2^28
SqrtOfInt(v) ==
  LET h == CHOOSE h \in 64..127 : (128 * h) * (128 * h) <= v
                                  /\ v < (128 * h + 128) * (128 * h + 128)
  IN  CHOOSE d \in (128 * h)..(128 * h + 127) : d * d <= v /\ v < (d + 1) * (d + 1)

\* (r * Base + d)^2 - (r * Base)^2
NatSquareGrowth(r, d) ==
  NatTrim(NatAdd(<<0>> \o NatMulSmall(NatAdd(r, r), d), NatOf(d * d)))

\* one step of the square root: the next two limbs of a (limbs st.i + 1 and
\* st.i) are brought down to the remainder st.rem, and the root st.r gets the
\* largest limb d whose square growth the remainder holds; d is at most the
\* quotient of the remainder by 2 * r * Base, and less by 3 at most
NatSqrtGrown(st, t, d) ==
  [i |-> st.i - 2, r |-> <<d>> \o st.r, rem |-> NatSub(t, NatSquareGrowth(st.r, d))]

NatSqrtLargest(st, t, hi) ==
  NatSqrtGrown(st, t, Highest({d \in (IF hi < 3 THEN 0 ELSE hi - 3)..hi :
                                 NatCmp(NatSquareGrowth(st.r, d), t) <= 0}))

NatSqrtCapped(st, t, est) == NatSqrtLargest(st, t, IF est > Base - 1 THEN Base - 1 ELSE est)

NatSqrtEstimated(st, t) ==
  NatSqrtCapped(st, t, NatValue(NatDivMod(SubSeq(t, 2, Len(t)), st.r).q) \div 2)

NatSqrtStep(a, st) == NatSqrtEstimated(st, NatTrim(<<a[st.i], a[st.i + 1]>> \o st.rem))

RECURSIVE NatSqrtFrom(_, _)
NatSqrtFrom(a, st) == IF st.i < 1 THEN st ELSE NatSqrtFrom(a, NatSqrtStep(a, st))

\* root r and remainder rem of a, a of 8 limbs and of 111 bits or more: the
\* top limb of the root is the root of the two top limbs of a
NatSqrt(a) ==
  LET top == SqrtOfInt(a[8] * Base + a[7])
  IN  NatSqrtFrom(a, [i |-> 5, r |-> <<top>>,
                      rem |-> NatOf(a[8] * Base + a[7] - top * top)])

---------------------------------------------------------------------------
(* Numbers: IEEE 754 binary64 values sg * m * 2^e, m odd and below 2^53,   *)
(* e >= -1074 and m * 2^e < 2^1024.  The two zeros have sg = 0 and no      *)
(* mantissa; e tells +0 (e = 0) from -0 (e = -1).                          *)

Zero == [sg |-> 0, m |-> <<>>, e |-> 0]

\* -0
NegZero == [sg |-> 0, m |-> <<>>, e |-> -1]

\* NaN (0 / 0)
NaN == [sg |-> 9, m |-> <<>>, e |-> 0]

\* +Infinity (the initial minimum of a bounding box)
PosInf == [sg |-> 2, m |-> <<>>, e |-> 0]

\* -Infinity (the initial maximum of a bounding box)
NegInf == [sg |-> -2, m |-> <<>>, e |-> 0]

IsInf(a) == a.sg = 2 \/ a.sg = -2

\* a === 0: a is +0 or -0
IsZero(a) == a.sg = 0

\* -1, 0, 1 as a < 0, a = 0, a > 0
Sign(a) == IF a.sg > 0 THEN 1 ELSE IF a.sg < 0 THEN -1 ELSE 0

\* -1 if the sign bit of a is set (a < 0 or a is -0), 1 if not
SignBit(a) == IF a.sg < 0 \/ a = NegZero THEN -1 ELSE 1

\* the zero and the infinity of the sign s
ZeroOf(s) == IF s < 0 THEN NegZero ELSE Zero

InfOf(s) == [sg |-> IF s < 0 THEN -2 ELSE 2, m |-> <<>>, e |-> 0]

\* sg * m * 2^e with the low zero bits of m # 0 moved to e
Shifted(sg, m, e, k) == [sg |-> sg, m |-> NatShiftRight(m, k), e |-> e + k]

Canon(sg, m, e) == Shifted(sg, m, e, NatLowZeros(m))

\* the binary64 value nearest to sg * (m + f) * 2^e, of two nearest the one
\* with the even mantissa; 0 < f < 1 if sticky, and then m has 55 bits or
\* more, f = 0 otherwise
\* m without its k low bits, rounded to nearest, ties to even
Nearest(m, k, sticky) ==
  IF NatBit(m, k - 1) = 1 /\ (sticky \/ NatLowBits(m, k - 1) \/ NatBit(m, k) = 1)
  THEN NatAdd(NatShiftRight(m, k), <<1>>)
  ELSE NatShiftRight(m, k)

\* sg * m * 2^e for m of 53 bits at most and e >= -1074: the zero of the
\* sign when the rounding has left nothing, the infinity of the sign when
\* it has left 2^1024 or more
Ranged(sg, m, e) ==
  IF m = <<>> THEN ZeroOf(sg)
  ELSE IF e + NatBits(m) > 1024 THEN InfOf(sg)
  ELSE Canon(sg, m, e)

RoundBits(sg, m, e, sticky, k) ==
  Ranged(sg, IF k <= 0 THEN m ELSE Nearest(m, k, sticky), IF k <= 0 THEN e ELSE e + k)

\* the number of low bits of m * 2^e a binary64 value does not hold: those
\* below the 53 leading bits and those below 2^-1074
droppedBits(bits, e) == IF bits - 53 > -1074 - e THEN bits - 53 ELSE -1074 - e

Round(sg, m, e, sticky) ==
  IF m = <<>> THEN ZeroOf(sg) ELSE RoundBits(sg, m, e, sticky, droppedBits(NatBits(m), e))

\* the integer n as a Number, -2^31 < n < 2^31
N(n) == IF n = 0 THEN Zero
        ELSE Canon(IF n < 0 THEN -1 ELSE 1, NatOf(IF n < 0 THEN -n ELSE n), 0)

Neg(a) ==
  IF a = NaN THEN NaN
  ELSE IF IsZero(a) THEN ZeroOf(-SignBit(a))
  ELSE [a EXCEPT !.sg = -a.sg]

\* a + b for finite a # 0 and b # 0 whose exponents differ by 128 at most
\* sign and magnitude of sa * ma + sb * mb, c the order of ma and mb
Summed(sa, ma, sb, mb, c) ==
  IF sa = sb THEN [sg |-> sa, m |-> NatAdd(ma, mb)]
  ELSE IF c >= 0 THEN [sg |-> sa, m |-> NatSub(ma, mb)]
  ELSE [sg |-> sb, m |-> NatSub(mb, ma)]

\* a sum that is exactly zero is +0
RoundSum(sum, e) == IF sum.m = <<>> THEN Zero ELSE Round(sum.sg, sum.m, e, FALSE)

\* (sa * ma + sb * mb) * 2^e
AddMagnitudes(sa, ma, sb, mb, e) == RoundSum(Summed(sa, ma, sb, mb, NatCmp(ma, mb)), e)

AddAt(a, b, e) ==
  AddMagnitudes(a.sg, NatShiftLeft(a.m, a.e - e), b.sg, NatShiftLeft(b.m, b.e - e), e)

AddAligned(a, b) == AddAt(a, b, IF a.e < b.e THEN a.e ELSE b.e)

\* a + b; an operand below 2^(-75) of the other leaves the other, and the
\* sum of two zeros is -0 only when both are -0
Add(a, b) ==
  IF a = NaN \/ b = NaN THEN NaN
  ELSE IF IsInf(a) THEN (IF IsInf(b) /\ a.sg # b.sg THEN NaN ELSE a)
  ELSE IF IsInf(b) THEN b
  ELSE IF IsZero(a) THEN (IF IsZero(b) /\ a # b THEN Zero ELSE b)
  ELSE IF IsZero(b) THEN a
  ELSE IF a.e - b.e > 128 THEN a
  ELSE IF b.e - a.e > 128 THEN b
  ELSE AddAligned(a, b)

Sub(a, b) == Add(a, Neg(b))

Mul(a, b) ==
  IF a = NaN \/ b = NaN THEN NaN
  ELSE IF IsInf(a) \/ IsInf(b)
       THEN (IF IsZero(a) \/ IsZero(b) THEN NaN ELSE InfOf(SignBit(a) * SignBit(b)))
  ELSE IF IsZero(a) \/ IsZero(b) THEN ZeroOf(SignBit(a) * SignBit(b))
  ELSE Round(a.sg * b.sg, NatMul(a.m, b.m), a.e + b.e, FALSE)

\* a / b for finite a # 0 and b # 0: b is shifted to a top limb of Base / 2
\* or more, a to a quotient of 55 or 56 bits; a remainder is sticky
DivRounded(a, b, s, qr) == Round(a.sg * b.sg, qr.q, a.e - b.e - s, qr.r # <<>>)

DivShifted(a, b, s, t) ==
  DivRounded(a, b, s, NatDivMod(NatShiftLeft(a.m, s + t), NatShiftLeft(b.m, t)))

DivFinite(a, b) ==
  DivShifted(a, b, 55 + NatBits(b.m) - NatBits(a.m), 14 - BitsOf(b.m[Len(b.m)]))

\* a / b; 0 / 0 and Infinity / Infinity are NaN, a zero or an infinity that
\* results has the product of the signs
Div(a, b) ==
  IF a = NaN \/ b = NaN THEN NaN
  ELSE IF IsInf(a) THEN (IF IsInf(b) THEN NaN ELSE InfOf(SignBit(a) * SignBit(b)))
  ELSE IF IsInf(b) THEN ZeroOf(SignBit(a) * SignBit(b))
  ELSE IF IsZero(b) THEN (IF IsZero(a) THEN NaN ELSE InfOf(SignBit(a) * SignBit(b)))
  ELSE IF IsZero(a) THEN ZeroOf(SignBit(a) * SignBit(b))
  ELSE DivFinite(a, b)

\* the order of the magnitudes of finite a # 0 and b # 0: -1, 0 or 1
CmpAbs(a, b) ==
  LET ta == a.e + NatBits(a.m)
      tb == b.e + NatBits(b.m)
  IN  IF ta < tb THEN -1
      ELSE IF ta > tb THEN 1
      ELSE NatCmp(NatShiftLeft(a.m, IF a.e < b.e THEN 0 ELSE a.e - b.e),
                  NatShiftLeft(b.m, IF a.e < b.e THEN b.e - a.e ELSE 0))

\* a < b
Lt(a, b) ==
  IF a = NaN \/ b = NaN THEN FALSE
  ELSE IF a.sg # b.sg THEN a.sg < b.sg
  ELSE IF a.sg = 1 \/ a.sg = -1 THEN a.sg * CmpAbs(a, b) < 0
  ELSE FALSE

Gt(a, b) == Lt(b, a)

Le(a, b) == a # NaN /\ b # NaN /\ ~Lt(b, a)

Ge(a, b) == a # NaN /\ b # NaN /\ ~Lt(a, b)

\* Math.min / Math.max of two numbers; -0 is the smaller of the zeros
MathMin(a, b) ==
  IF a = NaN \/ b = NaN THEN NaN
  ELSE IF Lt(b, a) THEN b
  ELSE IF Lt(a, b) \/ a = NegZero THEN a
  ELSE b

MathMax(a, b) ==
  IF a = NaN \/ b = NaN THEN NaN
  ELSE IF Lt(a, b) THEN b
  ELSE IF Lt(b, a) \/ a = Zero THEN a
  ELSE b

\* the literal n/d
Q(n, d) == Div(N(n), N(d))

Half == [sg |-> 1, m |-> <<1>>, e |-> -1]

SqrtRounded(a, s, rt) == Round(1, rt.r, (a.e - s) \div 2, rt.rem # <<>>)

SqrtShifted(a, s) == SqrtRounded(a, s, NatSqrt(NatShiftLeft(a.m, s)))

\* Math.sqrt: the mantissa is shifted to 111 or 112 bits and an even
\* exponent, the root has 56 bits; a remainder is sticky
Sqrt(a) ==
  IF a = NaN \/ a.sg < 0 THEN NaN
  ELSE IF IsZero(a) \/ a.sg = 2 THEN a
  ELSE SqrtShifted(a, 112 - NatBits(a.m) - ((a.e + NatBits(a.m)) % 2))

\* the magnitude of a
Abs(a) == IF a.sg < 0 THEN [a EXCEPT !.sg = -a.sg] ELSE IF IsZero(a) THEN Zero ELSE a

\* the root of the sum of the squares of the normalized operands, times max
hypotRoot(nx, ny, max) == Mul(Sqrt(Add(Mul(nx, nx), Mul(ny, ny))), max)

\* the operands of Math.hypot divided by the largest magnitude max
hypotOf(ax, ay, max) == hypotRoot(Div(ax, max), Div(ay, max), max)

\* Math.hypot(x, y): the operands are divided by the larger magnitude, the
\* squares are summed and the root of the sum is multiplied by it
MathHypot(x, y) ==
  IF IsInf(x) \/ IsInf(y) THEN PosInf
  ELSE IF x = NaN \/ y = NaN THEN NaN
  ELSE IF IsZero(x) /\ IsZero(y) THEN Zero
  ELSE hypotOf(Abs(x), Abs(y), IF Lt(Abs(x), Abs(y)) THEN Abs(y) ELSE Abs(x))

---------------------------------------------------------------------------
(* Loops: while (Cond(st)) st = Body(st), on the record st of the variables *)
(* the loop reads and writes.  A break is a variable of st that Cond reads. *)

\* the loop from st, of at most n iterations: eight runs of an eighth of n
RECURSIVE Loop(_, _, _, _)
Loop(Cond(_), Body(_), st, n) ==
  IF ~Cond(st) THEN st
  ELSE IF n <= 1 THEN Body(st)
  ELSE LET q  == (n + 7) \div 8
           r1 == Loop(Cond, Body, st, q)
           r2 == Loop(Cond, Body, r1, q)
           r3 == Loop(Cond, Body, r2, q)
           r4 == Loop(Cond, Body, r3, q)
           r5 == Loop(Cond, Body, r4, q)
           r6 == Loop(Cond, Body, r5, q)
           r7 == Loop(Cond, Body, r6, q)
           r8 == Loop(Cond, Body, r7, q)
       IN  <<r1, r2, r3, r4, r5, r6, r7, r8>>[8]

---------------------------------------------------------------------------
(* math.js: spline, nests, bounding box.                                   *)

Pt(x, y) == [x |-> x, y |-> y]

\* one coordinate of a tangent: t1x = (p2.x - p0.x) * 0.5, t2x = (p3.x - p1.x) * 0.5
tangentAt(before, after) == Mul(Sub(after, before), Half)

\* catmullRomSegment ending one point too far (p3 for p2)
catmullRomSegmentEndsAtP3(points, i) ==
  LET n   == Len(points)
      p0  == points[((i - 1 + n) % n) + 1]
      p1  == points[i + 1]
      p2  == points[((i + 1) % n) + 1]
      p3  == points[((i + 2) % n) + 1]
  IN  [p1 |-> Pt(p1.x, p1.y),
       c1 |-> Pt(Add(p1.x, Div(tangentAt(p0.x, p2.x), N(3))),
                 Add(p1.y, Div(tangentAt(p0.y, p2.y), N(3)))),
       c2 |-> Pt(Sub(p2.x, Div(tangentAt(p1.x, p3.x), N(3))),
                 Sub(p2.y, Div(tangentAt(p1.y, p3.y), N(3)))),
       p2 |-> Pt(p3.x, p3.y)]

\* the loop body of getCatmullRomBezierPath for index i (0-based)
catmullRomSegment(points, i) ==
  LET n   == Len(points)
      p0  == points[((i - 1 + n) % n) + 1]
      p1  == points[i + 1]
      p2  == points[((i + 1) % n) + 1]
      p3  == points[((i + 2) % n) + 1]
  IN  [p1 |-> Pt(p1.x, p1.y),
       c1 |-> Pt(Add(p1.x, Div(tangentAt(p0.x, p2.x), N(3))),
                 Add(p1.y, Div(tangentAt(p0.y, p2.y), N(3)))),
       c2 |-> Pt(Sub(p2.x, Div(tangentAt(p1.x, p3.x), N(3))),
                 Sub(p2.y, Div(tangentAt(p1.y, p3.y), N(3)))),
       p2 |-> Pt(p2.x, p2.y)]

\* getCatmullRomBezierPath with the guard at 2 points
getCatmullRomBezierPathFrom2(points) ==
  IF Len(points) < 2 THEN <<>>
  ELSE [k \in 1..Len(points) |-> catmullRomSegment(points, k - 1)] \o <<>>

getCatmullRomBezierPath(points) ==
  IF Len(points) < 3 THEN <<>>
  ELSE [k \in 1..Len(points) |-> catmullRomSegment(points, k - 1)] \o <<>>

\* scalePt that leaves y unscaled
scalePtXOnly(P, C, s) == Pt(Add(C.x, Mul(s, Sub(P.x, C.x))), P.y)

scalePt(P, C, s) ==
  Pt(Add(C.x, Mul(s, Sub(P.x, C.x))), Add(C.y, Mul(s, Sub(P.y, C.y))))

\* Math.min and Math.max of five numbers
MathMin5(m, a, b, c, d) == MathMin(MathMin(MathMin(MathMin(m, a), b), c), d)

MathMax5(m, a, b, c, d) == MathMax(MathMax(MathMax(MathMax(m, a), b), c), d)

\* the body of the loop of getPathBBox
growBBox(box, seg) ==
  [minX |-> MathMin5(box.minX, seg.p1.x, seg.c1.x, seg.c2.x, seg.p2.x),
   maxX |-> MathMax5(box.maxX, seg.p1.x, seg.c1.x, seg.c2.x, seg.p2.x),
   minY |-> MathMin5(box.minY, seg.p1.y, seg.c1.y, seg.c2.y, seg.p2.y),
   maxY |-> MathMax5(box.maxY, seg.p1.y, seg.c1.y, seg.c2.y, seg.p2.y)]

\* minX, minY, maxX, maxY as the loop of getPathBBox leaves them
pathBounds(pathSegs) ==
  Loop(LAMBDA st : st.i < Len(pathSegs),
       LAMBDA st : [i |-> st.i + 1, box |-> growBBox(st.box, pathSegs[st.i + 1])],
       [i |-> 0, box |-> [minX |-> PosInf, maxX |-> NegInf,
                          minY |-> PosInf, maxY |-> NegInf]],
       Len(pathSegs)).box

\* the size of the box: width: maxX - minX, height: maxY - minY
boxSize(box) == [width |-> Sub(box.maxX, box.minX), height |-> Sub(box.maxY, box.minY)]

\* getPathBBox with the box of no points of size 0
getPathBBoxEmptyAsZero(pathSegs) ==
  IF Len(pathSegs) = 0 THEN [width |-> Zero, height |-> Zero]
  ELSE boxSize(pathBounds(pathSegs))

getPathBBox(pathSegs) == boxSize(pathBounds(pathSegs))

\* the iteration cap of generateNests
SafetyCap == 100

\* the loop condition
withinCapOffByOne(safety) == safety <= SafetyCap

withinCap(safety) == safety < SafetyCap

\* belowMinSize that needs both dimensions below the threshold
belowMinSizeBoth(bbox, minSize) == Lt(bbox.width, minSize) /\ Lt(bbox.height, minSize)

\* belowMinSize with the comparison inverted
belowMinSizeInverted(bbox, minSize) == Gt(bbox.width, minSize) \/ Gt(bbox.height, minSize)

\* "Check Termination": the loop breaks on this bounding box
belowMinSize(bbox, minSize) == Lt(bbox.width, minSize) \/ Lt(bbox.height, minSize)

\* "Interpolate Scale Factor": t before the clamp
interpolationT(currentWidth, baseWidth, minSize) ==
  IF Gt(baseWidth, minSize)
  THEN Div(Sub(currentWidth, minSize), Sub(baseWidth, minSize))
  ELSE Zero

\* clamp01 that does not clamp
clamp01Missing(t) == t

clamp01(t) == MathMax(Zero, MathMin(N(1), t))

\* the scale s of one iteration
stepScale(currentWidth, baseWidth, startScale, endScale, minSize) ==
  Add(endScale, Mul(Sub(startScale, endScale),
                    clamp01(interpolationT(currentWidth, baseWidth, minSize))))

\* scalePath that scales the control points about the origin
scalePathControlsAboutOrigin(currentPath, C, s) ==
  [k \in 1..Len(currentPath) |->
     [p1 |-> scalePt(currentPath[k].p1, C, s),
      c1 |-> scalePt(currentPath[k].c1, Pt(Zero, Zero), s),
      c2 |-> scalePt(currentPath[k].c2, Pt(Zero, Zero), s),
      p2 |-> scalePt(currentPath[k].p2, C, s)]] \o <<>>

\* scalePath that scales each p2 as the c2 before it
scalePathEndsAsControls(currentPath, C, s) ==
  [k \in 1..Len(currentPath) |->
     [p1 |-> scalePt(currentPath[k].p1, C, s),
      c1 |-> scalePt(currentPath[k].c1, C, s),
      c2 |-> scalePt(currentPath[k].c2, C, s),
      p2 |-> scalePt(currentPath[k].c2, C, s)]] \o <<>>

\* "Generate Next Path (Affine Scaling)"
scalePath(currentPath, C, s) ==
  [k \in 1..Len(currentPath) |->
     [p1 |-> scalePt(currentPath[k].p1, C, s),
      c1 |-> scalePt(currentPath[k].c1, C, s),
      c2 |-> scalePt(currentPath[k].c2, C, s),
      p2 |-> scalePt(currentPath[k].p2, C, s)]] \o <<>>

\* the body of the while loop of generateNests; st.broke is the break
\* nests.push(nextPath); currentPath = nextPath; safety++
pushNest(st, nextPath) ==
  [st EXCEPT !.nests = Append(@, nextPath), !.currentPath = nextPath, !.safety = @ + 1]

\* the iteration on the bounding box of currentPath
nestOn(st, bbox, C, startScale, endScale, minSize) ==
  IF belowMinSize(bbox, minSize) THEN [st EXCEPT !.broke = TRUE]
  ELSE pushNest(st, scalePath(st.currentPath, C,
                              stepScale(bbox.width, st.baseWidth, startScale, endScale,
                                        minSize)))

nestStep(st, C, startScale, endScale, minSize) ==
  nestOn(st, getPathBBox(st.currentPath), C, startScale, endScale, minSize)

\* the while loop of generateNests
nestLoop(st, C, startScale, endScale, minSize) ==
  Loop(LAMBDA l : withinCap(l.safety) /\ ~l.broke,
       LAMBDA l : nestStep(l, C, startScale, endScale, minSize), st, SafetyCap + 1)

generateNests(basePath, C, startScale, endScale, minSize) ==
  nestLoop([nests |-> <<basePath>>, currentPath |-> basePath, safety |-> 0,
            baseWidth |-> getPathBBox(basePath).width, broke |-> FALSE],
           C, startScale, endScale, minSize).nests

---------------------------------------------------------------------------
VARIABLES
  state,      \* state.js: the exported state object
  listeners,  \* state.js: the subscribed callbacks, in subscription order
  heard,      \* per listener: how often it was invoked, and the state it last got
  dom,        \* main.js: what render last wrote to the page
  ribsGroup,  \* view3d.js: ribsGroup, undefined or the group with its children
  opsLeft,    \* number of calls of the store the run may still make
  before,     \* the state object as it was when the last call of the store began
  pc,         \* position of the function under check
  input,      \* its arguments
  output,     \* its return value
  local,      \* its local variables
  mouse       \* main.js: isPanning, panStart, viewStart, mouseDownPos, the readout

vars == <<state, listeners, heard, dom, ribsGroup, opsLeft, before, pc, input, output, local,
          mouse>>

editorVars == <<state, listeners, heard, dom, ribsGroup, opsLeft, before, mouse>>

callVars == <<pc, input, output, local>>

\* view3d.js line 8, let ribsGroup: undefined until init3D has assigned it
undefined == [undefined |-> TRUE]

\* new THREE.Group(), with the children added to it
Group(children) == [children |-> children]

\* the page is not loaded (the geometry functions are checked on their own)
noEditor ==
  /\ state = <<>>
  /\ listeners = <<>>
  /\ heard = <<>>
  /\ dom = <<>>
  /\ ribsGroup = undefined
  /\ opsLeft = 0
  /\ before = <<>>
  /\ mouse = <<>>

---------------------------------------------------------------------------
(* Inputs of the geometry functions.                                       *)

\* longest control polygon given to the spline builder on its own
MaxPolygon == 4

\* state.js: the initial control polygon and convergence point
initialPoints == <<Pt(N(2), N(5)), Pt(N(5), N(2)), Pt(N(8), N(5)), Pt(N(5), N(8))>>

initialConvergence == Pt(N(5), N(5))

SplinePoints == {Pt(N(2), N(5)), Pt(N(5), N(2)), Pt(N(8), N(5))}

Polygons == UNION {[1..n -> SplinePoints] : n \in 0..MaxPolygon}

---------------------------------------------------------------------------
(* getCatmullRomBezierPath on its own.                                     *)

InitSpline ==
  /\ noEditor
  /\ pc = "call"
  /\ input \in [points : Polygons]
  /\ output = <<>>
  /\ local = <<>>

callSpline ==
  /\ pc = "call"
  /\ output' = getCatmullRomBezierPath(input.points)
  /\ pc' = "done"
  /\ UNCHANGED <<input, local, editorVars>>

NextSpline == callSpline

SpecSpline == InitSpline /\ [][NextSpline]_vars

---------------------------------------------------------------------------
(* generateNests, one loop iteration per step, on the spline of the input  *)
(* polygon (render, main.js lines 64-65).                                  *)

wideDiamond == <<Pt(N(2), N(5)), Pt(N(8), N(2)), Pt(N(14), N(5)), Pt(N(8), N(8))>>

triangle == <<Pt(N(2), N(2)), Pt(N(8), N(2)), Pt(N(5), N(8))>>

twoPoints == <<Pt(N(2), N(5)), Pt(N(8), N(5))>>

NestPolygons == {initialPoints, wideDiamond, triangle, twoPoints}

NestConvergences == {initialConvergence, Pt(N(2), N(5)), Pt(N(0), N(0))}

\* startScale and endScale below 1: the nest shrinks; 0.9 and 0.3 are scales
\* whose difference and sum are rounded
ShrinkingScales ==
  {<<Q(1, 2), Q(1, 2)>>, <<Q(3, 4), Q(3, 4)>>, <<Q(1, 2), Q(3, 4)>>,
   <<Q(3, 4), Q(1, 2)>>, <<Q(1, 4), Q(3, 4)>>, <<N(0), N(0)>>,
   <<Q(9, 10), Q(3, 10)>>, <<Q(3, 10), Q(9, 10)>>}

PositiveMinSizes == {N(1), N(3), N(6)}

scenarioInput ==
  [points |-> initialPoints, C |-> initialConvergence,
   startScale |-> Q(9, 10), endScale |-> Q(9, 10), minSize |-> N(1)]

\* fewer than three points, and a threshold of 0
emptyInput ==
  [points |-> twoPoints, C |-> initialConvergence,
   startScale |-> Q(1, 2), endScale |-> Q(1, 2), minSize |-> N(0)]

\* scales of 1 and more, negative scales, thresholds of 0 and less:
\* <<startScale, endScale, minSize>>
DegenerateParameters ==
  {<<N(1), N(1), N(1)>>, <<N(-1), N(-1), N(1)>>, <<N(2), N(2), N(1)>>,
   <<N(2), Q(1, 2), N(1)>>, <<N(1), N(1), N(0)>>, <<N(0), N(0), N(0)>>,
   <<N(0), N(0), N(-1)>>, <<Q(1, 2), Q(1, 2), N(0)>>, <<Q(1, 2), Q(1, 2), N(7)>>,
   <<Q(6, 10), Q(6, 10), N(0)>>}

NestInputs ==
  {[points |-> p, C |-> c, startScale |-> ss[1], endScale |-> ss[2], minSize |-> m] :
     p \in NestPolygons, c \in NestConvergences, ss \in ShrinkingScales,
     m \in PositiveMinSizes}
  \cup
  {[points |-> initialPoints, C |-> initialConvergence,
    startScale |-> d[1], endScale |-> d[2], minSize |-> d[3]] :
     d \in DegenerateParameters}
  \cup {scenarioInput, emptyInput}

InitNests ==
  /\ noEditor
  /\ pc = "call"
  /\ input \in NestInputs
  /\ output = <<>>
  /\ local = <<>>

\* lines 473-481: the locals before the loop
enterNests ==
  /\ pc = "call"
  /\ \E basePath \in {getCatmullRomBezierPath(input.points)} :
       local' = [nests |-> <<basePath>>, currentPath |-> basePath, safety |-> 0,
                 baseWidth |-> getPathBBox(basePath).width, scales |-> <<>>]
  /\ pc' = "loop"
  /\ UNCHANGED <<input, output, editorVars>>

\* lines 483-517: one iteration that appends a curve; scales records each s
loopNests ==
  /\ pc = "loop"
  /\ withinCap(local.safety)
  /\ \E bbox \in {getPathBBox(local.currentPath)} :
     \E s \in {stepScale(bbox.width, local.baseWidth,
                         input.startScale, input.endScale, input.minSize)} :
     \E nextPath \in {scalePath(local.currentPath, input.C, s)} :
       /\ ~belowMinSize(bbox, input.minSize)
       /\ local' = [local EXCEPT !.nests = Append(@, nextPath),
                                 !.currentPath = nextPath,
                                 !.safety = @ + 1,
                                 !.scales = Append(@, s)]
  /\ UNCHANGED <<pc, input, output, editorVars>>

\* line 490: break
breakNests ==
  /\ pc = "loop"
  /\ withinCap(local.safety)
  /\ belowMinSize(getPathBBox(local.currentPath), input.minSize)
  /\ output' = local.nests
  /\ pc' = "done"
  /\ UNCHANGED <<input, local, editorVars>>

\* line 483: the loop condition fails
capNests ==
  /\ pc = "loop"
  /\ ~withinCap(local.safety)
  /\ output' = local.nests
  /\ pc' = "done"
  /\ UNCHANGED <<input, local, editorVars>>

NextNests == enterNests \/ loopNests \/ breakNests \/ capNests

SpecNests == InitNests /\ [][NextNests]_vars

\* The call is synchronous: it keeps taking steps until it has returned.  This
\* is weak fairness of NextNests, WF_vars(NextNests) written out as
\* []<>(~ENABLED <<NextNests>>_vars) \/ []<><<NextNests>>_vars, where a step
\* of the call is enabled exactly while pc # "done".
SpecNestsFair ==
  SpecNests /\ ([]<>(pc = "done") \/ []<><<NextNests>>_vars)

---------------------------------------------------------------------------
(* The editor: what render writes (main.js, view3d.js).                    *)

\* the integer part of a number that is not negative
floorOf(a) ==
  IF a.sg # 1 \/ a.e >= 0 THEN a
  ELSE IF a.e + NatBits(a.m) <= 0 THEN Zero
  ELSE Canon(1, NatShiftRight(a.m, -a.e), 0)

\* the decimal digits of the integer v, 0 <= v < 2^28, n of them at least
DigitsOfInt(v, n) ==
  LET t   == CHOOSE t \in 1..9 : v < 10^t /\ (t = 1 \/ v >= 10^(t - 1))
      len == IF t > n THEN t ELSE n
  IN  [k \in 1..len |-> (v \div 10^(len - k)) % 10] \o <<>>

\* the decimal digits of the magnitude a, n of them at least, n <= 5: the
\* digits of a are taken off four at a time
\* four digits are taken off: qr is the quotient and the remainder by 10^4
takeDigits(l, qr) == [a |-> qr.q, ds |-> DigitsOfInt(NatValue(qr.r), 4) \o l.ds]

\* the digits of a but the first 8 at most, and what is left of a
lowDigits(a) ==
  Loop(LAMBDA l : Len(l.a) > 2,
       LAMBDA l : takeDigits(l, NatDivMod(l.a, <<10000>>)),
       [a |-> a, ds |-> <<>>], 2 * Len(a))

allDigits(st, n) ==
  DigitsOfInt(NatValue(st.a), IF n > Len(st.ds) THEN n - Len(st.ds) ELSE 1) \o st.ds

DecimalOf(a, n) == allDigits(lowDigits(a), n)

\* the integer nearest to m * 2^e * 10^d, of two nearest the larger, d <= 4
scaledInteger(m, e, d) ==
  IF e >= 0 THEN NatShiftLeft(NatMulSmall(m, 10^d), e)
  ELSE IF -e > NatBits(m) + 15 THEN <<>>
  ELSE NatShiftRight(NatAdd(NatMulSmall(m, 10^d), NatShiftLeft(<<1>>, -e - 1)), -e)

Digit == <<"0", "1", "2", "3", "4", "5", "6", "7", "8", "9">>

\* the digits ds as text, with the point before the last d of them, d >= 1
digitsText(ds, d) ==
  Loop(LAMBDA l : l.i < Len(ds),
       LAMBDA l : [i    |-> l.i + 1,
                   text |-> l.text \o (IF l.i = Len(ds) - d THEN "." ELSE "")
                              \o Digit[ds[l.i + 1] + 1]],
       [i |-> 0, text |-> ""], Len(ds)).text

\* 10^21 = 5^21 * 2^21
TenTo21 == [sg |-> 1, m |-> <<12021, 13752, 6884, 108>>, e |-> 21]

\* half the distance from the number of mantissa m, of bits bits in all, to
\* the number above it, and to the number below it: a power of 2 is nearer
\* to the number below
halfGapAbove(bits) == NatShiftLeft(<<1>>, bits - 54)

halfGapBelow(m, bits) ==
  IF m = <<1>> THEN NatShiftLeft(<<1>>, bits - 55) ELSE NatShiftLeft(<<1>>, bits - 54)

\* a decimal at the distance dist rounds to the number whose half gap on that
\* side is gap: the ends of the interval belong to the even mantissas, which
\* are the odd m of fewer than 53 bits
roundsBack(m, dist, gap) ==
  IF NatBits(m) < 53 THEN NatCmp(dist, gap) <= 0 ELSE NatCmp(dist, gap) < 0

\* the decimals of k digits next to the integer of mantissa m and of the
\* digits ds: the first k digits (below, the k digits followed by zeros) and
\* the first k digits plus 1 (above); l.cut is the number the digits after
\* the k-th make and l.unit is 10^(Len(ds) - k)
shorter(m, bits, l) ==
  LET below == roundsBack(m, l.cut, halfGapBelow(m, bits))
      above == roundsBack(m, NatSub(l.unit, l.cut), halfGapAbove(bits))
      c     == NatCmp(l.cut, NatSub(l.unit, l.cut))
  IN  IF below /\ (~above \/ c < 0 \/ (c = 0 /\ l.digit % 2 = 0))
      THEN [l EXCEPT !.k = l.keep, !.up = FALSE]
      ELSE IF above THEN [l EXCEPT !.k = l.keep, !.up = TRUE]
      ELSE [l EXCEPT !.failed = TRUE]

\* one digit fewer is kept: the digit dropped goes to the number cut off
dropDigit(ds, l) ==
  [l EXCEPT !.keep  = @ - 1,
            !.cut   = NatAdd(NatMulSmall(l.unit, ds[l.keep]), l.cut),
            !.unit  = NatMulSmall(l.unit, 10),
            !.digit = IF l.keep > 1 THEN ds[l.keep - 1] ELSE 0]

\* the least number k of digits of a decimal that rounds to the integer, and
\* whether the decimal is the one above: the digits kept go down from all
\* while a decimal of that many digits rounds to the integer
shortest(m, bits, ds) ==
  Loop(LAMBDA l : l.keep >= 1 /\ ~l.failed,
       LAMBDA l : dropDigit(ds, shorter(m, bits, l)),
       [keep |-> Len(ds), cut |-> <<>>, unit |-> <<1>>, digit |-> ds[Len(ds)],
        k |-> Len(ds), up |-> FALSE, failed |-> FALSE], Len(ds))

\* the digits and the exponent of the decimal chosen
decimalChosen(ds, l) ==
  IF ~l.up THEN [ds |-> SubSeq(ds, 1, l.k), n |-> Len(ds) - 1]
  ELSE IF l.k = 1 /\ ds[1] = 9 THEN [ds |-> <<1>>, n |-> Len(ds)]
  ELSE [ds |-> [SubSeq(ds, 1, l.k) EXCEPT ![l.k] = @ + 1], n |-> Len(ds) - 1]

\* the digits, the point after the first of them, and the exponent
exponentialText(dec) ==
  digitsText(dec.ds, Len(dec.ds) - 1) \o "e+" \o digitsText(DigitsOfInt(dec.n, 1), 0)

exponentialOf(m, bits, ds) == exponentialText(decimalChosen(ds, shortest(m, bits, ds)))

\* Number::toString of a finite number of magnitude 10^21 or more: the
\* shortest decimal that rounds to the number, in exponential notation
toExponential(x) ==
  exponentialOf(x.m, NatBits(x.m) + x.e, DecimalOf(NatShiftLeft(x.m, x.e), 1))

\* Number.prototype.toFixed(d), 1 <= d <= 4: "-" for a number below 0, then
\* for a magnitude below 10^21 the digits of the integer nearest to
\* |x| * 10^d, the point before the last d, and for a magnitude of 10^21 or
\* more the text of the number; a number that is not finite gives its name
toFixed(x, d) ==
  IF x = NaN THEN "NaN"
  ELSE IF x = PosInf THEN "Infinity"
  ELSE IF x = NegInf THEN "-Infinity"
  ELSE (IF x.sg < 0 THEN "-" ELSE "")
         \o (IF x.sg # 0 /\ Ge(Abs(x), TenTo21) THEN toExponential(x)
             ELSE digitsText(DecimalOf(scaledInteger(x.m, x.e, d), d + 1), d))

\* x.toFixed(d) of every x of xs
fixedAll(xs, d) == [k \in 1..Len(xs) |-> toFixed(xs[k], d)]

\* what the loop of pathToSvgD appends for one segment, t the texts of its
\* six coordinates
curveText(t) ==
  " C " \o t[1] \o " " \o t[2] \o ", " \o t[3] \o " " \o t[4] \o ", " \o t[5] \o " " \o t[6]

svgCurve(seg) ==
  curveText(fixedAll(<<seg.c1.x, seg.c1.y, seg.c2.x, seg.c2.y, seg.p2.x, seg.p2.y>>, 4))

\* what pathToSvgD begins with, t the texts of the first point's coordinates
moveText(t) == "M " \o t[1] \o " " \o t[2]

\* the path string
pathToSvgD(pathSegs) ==
  IF Len(pathSegs) = 0 THEN ""
  ELSE Loop(LAMBDA l : l.i < Len(pathSegs),
            LAMBDA l : [i |-> l.i + 1, d |-> l.d \o svgCurve(pathSegs[l.i + 1])],
            [i |-> 0,
             d |-> moveText(fixedAll(<<pathSegs[1].p1.x, pathSegs[1].p1.y>>, 4))],
            Len(pathSegs)).d \o " Z"

\* document.activeElement: the body, or the slider that has the focus
FocusElements == {"body", "startScale", "endScale"}

\* the page before the first render: nothing has the focus, and nothing has
\* been written, neither group has a child
blankPage ==
  [shown         |-> <<>>,
   curveGroup    |-> <<>>,
   stops         |-> <<>>,
   handles       |-> <<>>,
   cross         |-> <<>>,
   controls      |-> [startScale |-> <<>>, endScale |-> <<>>],
   viewBox       |-> <<>>,
   activeElement |-> "body"]

\* the values, texts and disabled flags of the control panel, t the texts of
\* toFixed(2); the slider that has the focus keeps its value, a value that is
\* a Number is the Number assigned, rotationVal is the Number and the text
\* appended to it
controlsWith(t, s, page) ==
  [startScale        |-> IF page.activeElement # "startScale" THEN s.startScale
                         ELSE page.controls.startScale,
   startScaleVal     |-> t[1],
   endScale          |-> IF page.activeElement # "endScale" THEN s.endScale
                         ELSE page.controls.endScale,
   endScaleVal       |-> t[2],
   minSize           |-> s.minSize,
   thickness         |-> s.thickness,
   thicknessVal      |-> t[3],
   rotation          |-> s.baseRotation,
   rotationVal       |-> <<s.baseRotation, "°">>,
   pivotStart        |-> s.pivotStart,
   pivotStartVal     |-> t[4],
   pivotEnd          |-> s.pivotEnd,
   pivotEndVal       |-> t[5],
   gradientCenter    |-> s.gradientCenter,
   gradientCenterVal |-> t[6],
   ptX      |-> IF s.selectedPointIndex # -1
                THEN t[7] ELSE "",
   ptY      |-> IF s.selectedPointIndex # -1
                THEN t[8] ELSE "",
   disabled |-> s.selectedPointIndex = -1]

\* the point whose coordinates the panel shows
shownPoint(s) ==
  IF s.selectedPointIndex # -1 THEN s.points[s.selectedPointIndex + 1] ELSE Pt(Zero, Zero)

\* the Numbers that updateUIControls writes with toFixed(2)
fixedOf(s, p) ==
  <<s.startScale, s.endScale, s.thickness, s.pivotStart, s.pivotEnd, s.gradientCenter, p.x, p.y>>

\* updateUIControls(s) on the page it finds
updateUIControls(s, page) == controlsWith(fixedAll(fixedOf(s, shownPoint(s)), 2), s, page)

---------------------------------------------------------------------------
(* math.js: arc-length sampler.                                            *)

(* The exponentiation operator.  x ** 2 is x * x.  Any other power is     *)
(* taken as the engine takes it: 2^(y * log2(x)) in pairs of a leading and *)
(* a trailing Number, the leading one of 21 bits (a high word of the      *)
(* representation with the low word cleared), so that the products of two *)
(* leading parts are exact.  log2 is taken about bp(k) = 1 or 1.5 with the *)
(* polynomial powL1..powL6, the power of 2 with the polynomial powP1..powP5.            *)

powL1 == [sg |-> 1, m |-> <<13059, 3276, 13107, 1228>>, e |-> -53]
powL2 == [sg |-> 1, m |-> <<11263, 11710, 7021, 1755>>, e |-> -54]
powL3 == [sg |-> 1, m |-> <<9805, 1596, 5461, 1365>>, e |-> -54]
powL4 == [sg |-> 1, m |-> <<257, 9333, 1546, 1117>>, e |-> -54]
powL5 == [sg |-> 1, m |-> <<7013, 3879, 9385, 1889>>, e |-> -55]
powL6 == [sg |-> 1, m |-> <<3823, 10517, 8836, 1695>>, e |-> -55]
powP1 == [sg |-> 1, m |-> <<10911, 10922, 10922, 682>>, e |-> -54]
powP2 == [sg |-> -1, m |-> <<15763, 6906, 5825, 1456>>, e |-> -61]
powP3 == [sg |-> 1, m |-> <<14219, 12069, 6570, 277>>, e |-> -64]
powP4 == [sg |-> -1, m |-> <<11249, 5961, 5148, 1775>>, e |-> -72]
powP5 == [sg |-> 1, m |-> <<10829, 7343, 14185, 88>>, e |-> -73]

\* ln 2, its leading part and the rest
lg2 == [sg |-> 1, m |-> <<14831, 15336, 9263, 1419>>, e |-> -53]
lg2_h == [sg |-> 1, m |-> <<11843, 88>>, e |-> -21]
lg2_l == [sg |-> -1, m |-> <<11321, 12961, 1552, 1047>>, e |-> -81]

\* 2 / (3 ln 2), its leading part and the rest
cp == [sg |-> 1, m |-> <<1021, 12520, 12445, 1969>>, e |-> -53]
cp_h == [sg |-> 1, m |-> <<14415, 984>>, e |-> -24]
cp_l == [sg |-> -1, m |-> <<501, 4460, 15873, 1931>>, e |-> -80]

bp(k) == IF k = 0 THEN [sg |-> 1, m |-> <<1>>, e |-> 0] ELSE [sg |-> 1, m |-> <<3>>, e |-> -1]

\* log2(1.5), its leading part and the rest
dp_h(k) == IF k = 0 THEN Zero ELSE [sg |-> 1, m |-> <<8205, 299>>, e |-> -23]
dp_l(k) == IF k = 0 THEN Zero ELSE [sg |-> 1, m |-> <<10243, 1951, 12122, 927>>, e |-> -78]

\* the 21 leading bits of the magnitude of a finite a # 0, as an integer
HighBits(a) ==
  IF NatBits(a.m) >= 21 THEN NatValue(NatShiftRight(a.m, NatBits(a.m) - 21))
  ELSE NatValue(NatShiftLeft(a.m, 21 - NatBits(a.m)))

\* a finite a with the low word cleared: its 21 leading bits
HighPart(a) ==
  IF a.sg = 0 \/ NatBits(a.m) <= 21 THEN a
  ELSE Canon(a.sg, NatShiftRight(a.m, NatBits(a.m) - 21), a.e + NatBits(a.m) - 21)

\* the exponent of a finite a # 0: 2^Exponent(a) <= |a| < 2 * 2^Exponent(a)
Exponent(a) == a.e + NatBits(a.m) - 1

\* a * 2^k, a value binary64 holds
Scaled(a, k) == IF a.sg = 0 THEN a ELSE [a EXCEPT !.e = @ + k]

\* scalbn(a, k): a * 2^k, rounded when it is below 2^-1022
scalbn(a, k) == IF a.sg = 0 THEN a ELSE Round(a.sg, a.m, a.e + k, FALSE)

\* the integer of a Number that is one, below 2^28
IntegerOf(a) == IF a.sg = 0 THEN 0 ELSE a.sg * NatValue(NatShiftLeft(a.m, a.e))

\* c[k] + x * (c[k + 1] + x * (... + x * c[Len(c)]))
RECURSIVE horner(_, _, _)
horner(c, x, k) ==
  IF k = Len(c) THEN c[k] ELSE Add(c[k], Mul(x, horner(c, x, k + 1)))

\* powL1 + s2 * (powL2 + s2 * (powL3 + s2 * (powL4 + s2 * (powL5 + s2 * powL6))))
logPoly(s2) == horner(<<powL1, powL2, powL3, powL4, powL5, powL6>>, s2, 1)

\* powP1 + t * (powP2 + t * (powP3 + t * (powP4 + t * powP5)))
expPoly(t) == horner(<<powP1, powP2, powP3, powP4, powP5>>, t, 1)

\* 2^(z + w) * 2^n for |z| <= ln(2) / 2, t1 = z - z^2 * expPoly(z^2): the
\* quotient is taken over (t1 - 2) - (w + z * w)
powExp(n, z, w, t1) ==
  scalbn(Sub(N(1), Sub(Div(Mul(z, t1), Sub(Sub(t1, N(2)), Add(w, Mul(z, w)))), z)), n)

powSeries(n, z, w, t) == powExp(n, z, w, Sub(z, Mul(t, expPoly(t))))

powTail(n, u, v, z) == powSeries(n, z, Sub(v, Sub(z, u)), Mul(z, z))

powLn(n, u, v) == powTail(n, u, v, Add(u, v))

\* the fraction p_l + p_h times ln 2, t the leading part of the fraction
powFraction(n, p_l, p_h, t) ==
  powLn(n, Mul(t, lg2_h), Add(Mul(Sub(p_l, Sub(t, p_h)), lg2), Mul(t, lg2_l)))

powSplit(n, p_l, p_h) == powFraction(n, p_l, p_h, HighPart(Add(p_l, p_h)))

\* the integer nearest to z when the leading part zh of its magnitude is
\* above 1/2, and 0 when it is not
nearestInteger(z, zh) ==
  IF Gt(zh, Half) THEN Sign(z) * IntegerOf(floorOf(Add(zh, Half))) ELSE 0

\* n is taken off y * log2(x) = p_l + p_h
powRounded(p_l, p_h, n) == powSplit(n, p_l, Sub(p_h, N(n)))

powInteger(p_l, p_h, z, zh) == powRounded(p_l, p_h, nearestInteger(z, zh))

\* -(1024 - log2(ovfl + 0.5 ulp)), 8.0085662595372944372e-17
ovt == [sg |-> 1, m |-> <<383, 2647, 10811, 738>>, e |-> -105]

\* z = p_l + p_h is above 1024, or is 1024 and p_l + ovt > z - p_h: huge * huge
powOverflows(p_l, p_h, z) ==
  \/ Gt(z, N(1024))
  \/ z = N(1024) /\ Gt(Add(p_l, ovt), Sub(z, p_h))

\* z is below -1075, or is -1075 and p_l <= z - p_h: tiny * tiny
powUnderflows(p_l, p_h, z) ==
  \/ Lt(z, N(-1075))
  \/ z = N(-1075) /\ Le(p_l, Sub(z, p_h))

powProduct(p_l, p_h, z) ==
  IF powOverflows(p_l, p_h, z) THEN PosInf
  ELSE IF powUnderflows(p_l, p_h, z) THEN Zero
  ELSE powInteger(p_l, p_h, z, HighPart(Abs(z)))

powSum(p_l, p_h) == powProduct(p_l, p_h, Add(p_l, p_h))

\* y * (t1 + t2), y1 the leading part of y
powTimes(y, y1, t1, t2) == powSum(Add(Mul(Sub(y, y1), t1), Mul(y, t2)), Mul(y1, t1))

\* log2(x) = t1 + t2
powLog2(y, k, n, z_h, z_l, t1) ==
  powTimes(y, HighPart(y), t1, Sub(z_l, Sub(Sub(Sub(t1, N(n)), dp_h(k)), z_h)))

powLogSum(y, k, n, z_h, z_l) ==
  powLog2(y, k, n, z_h, z_l, HighPart(Add(Add(Add(z_h, z_l), dp_h(k)), N(n))))

\* 2 / (3 ln 2) * (p_h + p_l)
powLogScaled(y, k, n, p_h, p_l) ==
  powLogSum(y, k, n, Mul(cp_h, p_h), Add(Add(Mul(cp_l, p_h), Mul(p_l, cp)), dp_l(k)))

powLogParts(y, k, n, u, v, p_h) == powLogScaled(y, k, n, p_h, Sub(v, Sub(p_h, u)))

\* u + v = ss * (3 + s2 + r)
powLogProduct(y, k, n, u, v) == powLogParts(y, k, n, u, v, HighPart(Add(u, v)))

powLogTail(y, k, n, ss, s_h, s_l, t_h, t_l) ==
  powLogProduct(y, k, n, Mul(s_h, t_h), Add(Mul(s_l, t_h), Mul(t_l, ss)))

powLogLead(y, k, n, ss, s_h, s_l, r, s2, t_h) ==
  powLogTail(y, k, n, ss, s_h, s_l, t_h, Sub(r, Sub(Sub(t_h, N(3)), s2)))

\* 3 + s2 + r, s2 the square of s_h
powLogCubic(y, k, n, ss, s_h, s_l, r, s2) ==
  powLogLead(y, k, n, ss, s_h, s_l, r, s2, HighPart(Add(Add(N(3), s2), r)))

powLogSeries(y, k, n, ss, s_h, s_l, s2) ==
  powLogCubic(y, k, n, ss, s_h, s_l,
              Add(Mul(Mul(s2, s2), logPoly(s2)), Mul(s_l, Add(s_h, ss))), Mul(s_h, s_h))

\* ss = s_h + s_l = (ax - bp) / (ax + bp), t_h + t_l = ax + bp
powRatioParts(y, k, n, u, v, ss, s_h, t_h, t_l) ==
  powLogSeries(y, k, n, ss, s_h, Mul(v, Sub(Sub(u, Mul(s_h, t_h)), Mul(s_h, t_l))),
               Mul(ss, ss))

powRatio(ax, y, k, n, t_h, u, v, ss) ==
  powRatioParts(y, k, n, u, v, ss, HighPart(ss), t_h, Sub(ax, Sub(t_h, bp(k))))

powAbout(ax, y, k, n, t_h, u, v) == powRatio(ax, y, k, n, t_h, u, v, Mul(u, v))

\* ax = x / 2^n, t_h the leading part of ax + bp(k)
powReduced(ax, y, k, n, t_h) ==
  powAbout(ax, y, k, n, t_h, Sub(ax, bp(k)), Div(N(1), Add(ax, bp(k))))

\* x = (1 + j / 2^20 + ...) * 2^n: x / 2^n is taken about 1 up to sqrt(3/2),
\* about 1.5 up to sqrt(3), and above that x / 2^(n + 1) about 1
intervalOf(x, j, n) ==
  IF j <= 235662
  THEN [ax |-> Scaled(x, -n), k |-> 0, n |-> n, t_h |-> Scaled(N(2^20 + (j \div 2)), -19)]
  ELSE IF j < 767610
  THEN [ax |-> Scaled(x, -n), k |-> 1, n |-> n,
        t_h |-> Scaled(N(2^20 + 2^18 + (j \div 2)), -19)]
  ELSE [ax |-> Scaled(x, -n - 1), k |-> 0, n |-> n + 1,
        t_h |-> Scaled(N(3 * 2^19 + (j \div 2)), -20)]

powWithin(y, v) == powReduced(v.ax, y, v.k, v.n, v.t_h)

powInterval(x, y, j, n) == powWithin(y, intervalOf(x, j, n))

\* x ** y for a finite x > 0 other than 1
powOf(x, y) == powInterval(x, y, HighBits(x) - 2^20, Exponent(x))

\* the power p of |a| with the sign of a ** n
signedAs(a, n, p) == IF a.sg < 0 /\ n % 2 = 1 THEN Neg(p) ELSE p

\* a ** n for an integer n >= 0
Pow(a, n) ==
  IF n = 0 THEN N(1)
  ELSE IF a = NaN THEN NaN
  ELSE IF n = 1 THEN a
  ELSE IF n = 2 THEN Mul(a, a)
  ELSE IF IsInf(a) THEN (IF a.sg < 0 /\ n % 2 = 1 THEN NegInf ELSE PosInf)
  ELSE IF IsZero(a) THEN (IF n % 2 = 1 THEN a ELSE Zero)
  ELSE IF a.m = <<1>> /\ a.e = 0 THEN (IF a.sg < 0 /\ n % 2 = 1 THEN a ELSE N(1))
  ELSE signedAs(a, n, powOf(Abs(a), N(n)))

\* the powers a ** n of the pairs <<a, n>>
powers(pairs) == [k \in 1..Len(pairs) |-> Pow(pairs[k][1], pairs[k][2])] \o <<>>

\* the weights of p1, c1, c2 and p2 in getBezierPt: it ** 3, 3 * it ** 2 * t,
\* 3 * it * t ** 2 and t ** 3, given p = <<it ** 3, it ** 2, t ** 2, t ** 3>>
bernsteinWith(t, it, p) ==
  <<p[1], Mul(Mul(N(3), p[2]), t), Mul(Mul(N(3), it), p[3]), p[4]>>

bernsteinOf(t, it) == bernsteinWith(t, it, powers(<<<<it, 3>>, <<it, 2>>, <<t, 2>>, <<t, 3>>>>))

bernstein(t) == bernsteinOf(t, Sub(N(1), t))

\* one coordinate of getBezierPt, w the weights
bezierCoordinate(a, b, c, d, w) ==
  Add(Add(Add(Mul(w[1], a), Mul(w[2], b)), Mul(w[3], c)), Mul(w[4], d))

bezierPoint(p1, c1, c2, p2, w) ==
  Pt(bezierCoordinate(p1.x, c1.x, c2.x, p2.x, w),
     bezierCoordinate(p1.y, c1.y, c2.y, p2.y, w))

getBezierPt(p1, c1, c2, p2, t) == bezierPoint(p1, c1, c2, p2, bernstein(t))

\* the weights of c1 - p1, c2 - c1 and p2 - c2 in getBezierTangent:
\* 3 * it ** 2, 6 * it * t and 3 * t ** 2, given p = <<it ** 2, t ** 2>>
tangentWith(t, it, p) == <<Mul(N(3), p[1]), Mul(Mul(N(6), it), t), Mul(N(3), p[2])>>

tangentWeights(t, it) == tangentWith(t, it, powers(<<<<it, 2>>, <<t, 2>>>>))

\* one coordinate of getBezierTangent, w the weights
tangentCoordinate(a, b, c, d, w) ==
  Add(Add(Mul(w[1], Sub(b, a)), Mul(w[2], Sub(c, b))), Mul(w[3], Sub(d, c)))

tangentOf(p1, c1, c2, p2, w) ==
  Pt(tangentCoordinate(p1.x, c1.x, c2.x, p2.x, w),
     tangentCoordinate(p1.y, c1.y, c2.y, p2.y, w))

getBezierTangent(p1, c1, c2, p2, t) == tangentOf(p1, c1, c2, p2, tangentWeights(t, Sub(N(1), t)))

\* steps of the length of a segment in the segment search
LengthSteps == 20

\* steps of the walk within the segment found
fineSteps == 40

\* the weights at t = i / fineSteps of the steps of the fine walk, taken once
fineWeights == [i \in 1..fineSteps |-> bernstein(Div(N(i), N(fineSteps)))] \o <<>>

\* the weights at t = i / steps; i / LengthSteps is the quotient
\* 2 * i / fineSteps, one and the same number
weightsAt(i, steps) ==
  IF steps = fineSteps \/ 2 * steps = fineSteps THEN fineWeights[(fineSteps \div steps) * i]
  ELSE bernstein(Div(N(i), N(steps)))

\* one step of a walk along a segment in steps: the point at i / steps and
\* its distance from prev
chordOf(prev, curr) ==
  [curr |-> curr, stepLen |-> MathHypot(Sub(curr.x, prev.x), Sub(curr.y, prev.y))]

chordTo(seg, prev, i, steps) ==
  chordOf(prev, bezierPoint(seg.p1, seg.c1, seg.c2, seg.p2, weightsAt(i, steps)))

\* len += Math.hypot(...); prev = curr
addChord(l, c) == [i |-> l.i + 1, len |-> Add(l.len, c.stepLen), prev |-> c.curr]

getBezierLength(seg, steps) ==
  Loop(LAMBDA l : l.i <= steps,
       LAMBDA l : addChord(l, chordTo(seg, l.prev, l.i, steps)),
       [i |-> 1, len |-> Zero, prev |-> seg.p1], steps).len

\* a % 1: the fraction of a, with the sign of a
mod1(a) ==
  IF a = NaN \/ IsInf(a) THEN NaN
  ELSE IF IsZero(a) THEN a
  ELSE IF a.sg > 0 THEN Sub(a, floorOf(a))
  ELSE Neg(Sub(Neg(a), floorOf(Neg(a))))

\* s % 1 alone
wrapOnce(s) == mod1(s)

\* ((s % 1) + 1) % 1
wrap(s) == mod1(Add(mod1(s), N(1)))

\* the test of the segment search with > for >=
reachesStrictly(currentLen, length, targetLen) ==
  Gt(Add(currentLen, length), targetLen)

\* the test of the segment search and of the fine walk
reaches(currentLen, length, targetLen) ==
  Ge(Add(currentLen, length), targetLen)

\* lengths.reduce((a, b) => a + b, 0)
sumOf(lengths) ==
  Loop(LAMBDA l : l.i < Len(lengths),
       LAMBDA l : [i |-> l.i + 1, a |-> Add(l.a, lengths[l.i + 1])],
       [i |-> 0, a |-> Zero], Len(lengths)).a

\* the segment search: segIdx (from 0) and currentLen as the loop leaves them
findSegment(lengths, targetLen) ==
  Loop(LAMBDA l : l.i < Len(lengths) /\ ~l.broke,
       LAMBDA l : IF reaches(l.currentLen, lengths[l.i + 1], targetLen)
                  THEN [l EXCEPT !.segIdx = l.i, !.broke = TRUE]
                  ELSE [l EXCEPT !.currentLen = Add(@, lengths[l.i + 1]), !.i = @ + 1],
       [i |-> 0, currentLen |-> Zero, segIdx |-> 0, broke |-> FALSE], Len(lengths))

\* t of the step that reaches segTarget
interpolateT(i, walked, stepLen, segTarget) ==
  Div(Add(N(i - 1), Div(Sub(segTarget, walked), stepLen)), N(fineSteps))

\* the fine walk: t as the loop leaves it
\* the body of the loop of the fine walk on the chord c of step l.i
walkChord(l, c, segTarget) ==
  IF reaches(l.walked, c.stepLen, segTarget)
  THEN [l EXCEPT !.t = interpolateT(l.i, l.walked, c.stepLen, segTarget), !.broke = TRUE]
  ELSE [l EXCEPT !.walked = Add(@, c.stepLen), !.prev = c.curr, !.i = @ + 1]

fineWalk(seg, segTarget) ==
  Loop(LAMBDA l : l.i <= fineSteps /\ ~l.broke,
       LAMBDA l : walkChord(l, chordTo(seg, l.prev, l.i, fineSteps), segTarget),
       [i |-> 1, t |-> Zero, prev |-> seg.p1, walked |-> Zero, broke |-> FALSE], fineSteps).t

\* point, normal and unit tangent of the segment at t
\* the sample of the tangent tan of length len
sampleOf(seg, t, tan, len) ==
  [point   |-> getBezierPt(seg.p1, seg.c1, seg.c2, seg.p2, t),
   normal  |-> Pt(Div(Neg(tan.y), len), Div(tan.x, len)),
   tangent |-> Pt(Div(tan.x, len), Div(tan.y, len))]

sampleAlong(seg, t, tan) == sampleOf(seg, t, tan, MathHypot(tan.x, tan.y))

sampleAt(seg, t) == sampleAlong(seg, t, getBezierTangent(seg.p1, seg.c1, seg.c2, seg.p2, t))

\* pathSegs.map(seg => getBezierLength(seg.p1, seg.c1, seg.c2, seg.p2, 20))
segmentLengths(pathSegs) ==
  [k \in 1..Len(pathSegs) |-> getBezierLength(pathSegs[k], LengthSteps)] \o <<>>

\* the segment and the local parameter getPathPropertiesAt samples at
\* the fine walk to segTarget within the segment segIdx
locateWithin(pathSegs, segIdx, segTarget) ==
  [segIdx |-> segIdx, segTarget |-> segTarget,
   t |-> fineWalk(pathSegs[segIdx + 1], segTarget)]

\* segTarget = targetLen - currentLen of the segment found
locateFound(pathSegs, targetLen, found) ==
  locateWithin(pathSegs, found.segIdx, Sub(targetLen, found.currentLen))

locateTarget(pathSegs, lengths, targetLen) ==
  locateFound(pathSegs, targetLen, findSegment(lengths, targetLen))

\* targetLen = s * totalLength
locateIn(pathSegs, s, lengths) == locateTarget(pathSegs, lengths, Mul(wrap(s), sumOf(lengths)))

locate(pathSegs, s) == locateIn(pathSegs, s, segmentLengths(pathSegs))

\* the sample at the place located
sampleLocated(pathSegs, at) == sampleAt(pathSegs[at.segIdx + 1], at.t)

getPathPropertiesAt(pathSegs, s) ==
  IF Len(pathSegs) = 0 THEN "null" ELSE sampleLocated(pathSegs, locate(pathSegs, s))

---------------------------------------------------------------------------
(* getPathPropertiesAt, one loop iteration per step.                       *)

\* a segment whose four points are the one point p
pointSegment(p) == [p1 |-> p, c1 |-> p, c2 |-> p, p2 |-> p]

\* the corner of the canvas the viewport starts at
origin == Pt(Zero, Zero)

\* the polygon with its points taken from the k-th on, cyclically
rotated(points, k) ==
  [i \in 1..Len(points) |-> points[((i + k - 1) % Len(points)) + 1]] \o <<>>

\* the curves sampled: splines of polygons (the initial diamond started at
\* each of three of its points, a triangle, three points at the origin), a
\* nest collapsed onto the convergence point, the empty curve
SampleCurves ==
  {getCatmullRomBezierPath(initialPoints),
   getCatmullRomBezierPath(rotated(initialPoints, 1)),
   getCatmullRomBezierPath(rotated(initialPoints, 3)),
   getCatmullRomBezierPath(triangle),
   getCatmullRomBezierPath(<<origin, origin, origin>>),
   <<pointSegment(initialConvergence)>>,
   <<>>}

\* positions that are multiples of 1/8, which the sums of the wrap keep exact
EighthPositions == {N(0), N(1), Neg(Q(1, 4)), Half, Q(3, 4), Q(11, 8)}

\* 0.25 + 2^-53, the second double above 0.25: adding 1 to it rounds to 1.25
JustAboveQuarter == Add(Q(1, 4), [sg |-> 1, m |-> <<1>>, e |-> -53])

\* 1 - 2^-52, the second double below 1: adding 2 to it rounds to 3
JustBelowOne == Sub(N(1), [sg |-> 1, m |-> <<1>>, e |-> -52])

\* the positions sampled: the eighths, 0.2 (the pivotEnd of the initial
\* state) and two positions next to the end of a segment
SamplePositions == EighthPositions \cup {Q(2, 10), JustAboveQuarter, JustBelowOne}

InitSample ==
  /\ noEditor
  /\ pc = "call"
  /\ input \in {[pathSegs |-> c, s |-> s] : c \in SampleCurves, s \in SamplePositions}
  /\ output = <<>>
  /\ local = <<>>

\* line 602
returnNull ==
  /\ pc = "call"
  /\ Len(input.pathSegs) = 0
  /\ output' = "null"
  /\ pc' = "done"
  /\ UNCHANGED <<input, local, editorVars>>

\* line 602: the curve is not empty
enterSample ==
  /\ pc = "call"
  /\ Len(input.pathSegs) > 0
  /\ local' = [lengths |-> <<>>]
  /\ pc' = "measure"
  /\ UNCHANGED <<input, output, editorVars>>

\* line 605: the length of the next segment
measureSegment ==
  /\ pc = "measure"
  /\ Len(local.lengths) < Len(input.pathSegs)
  /\ local' = [lengths |->
                 Append(local.lengths,
                        getBezierLength(input.pathSegs[Len(local.lengths) + 1], LengthSteps))]
  /\ UNCHANGED <<pc, input, output, editorVars>>

\* lines 606-614
wrapTarget ==
  /\ pc = "measure"
  /\ Len(local.lengths) = Len(input.pathSegs)
  /\ \E totalLength \in {sumOf(local.lengths)} :
     \E s \in {wrap(input.s)} :
       local' = [lengths |-> local.lengths, totalLength |-> totalLength, s |-> s,
                 targetLen |-> Mul(s, totalLength), currentLen |-> Zero,
                 segIdx |-> 0, i |-> 0]
  /\ pc' = "scan"
  /\ UNCHANGED <<input, output, editorVars>>

\* lines 615-621: an iteration that does not break
scanSegment ==
  /\ pc = "scan"
  /\ local.i < Len(local.lengths)
  /\ ~reaches(local.currentLen, local.lengths[local.i + 1], local.targetLen)
  /\ local' = [local EXCEPT !.currentLen = Add(@, local.lengths[local.i + 1]),
                            !.i = @ + 1]
  /\ UNCHANGED <<pc, input, output, editorVars>>

\* lines 615-635: the loop breaks, or ends; the locals of the fine walk
leaveScan ==
  /\ pc = "scan"
  /\ \/ local.i >= Len(local.lengths)
     \/ /\ local.i < Len(local.lengths)
        /\ reaches(local.currentLen, local.lengths[local.i + 1], local.targetLen)
  /\ \E segIdx \in {IF local.i < Len(local.lengths) THEN local.i ELSE local.segIdx} :
       local' = [lengths |-> local.lengths, totalLength |-> local.totalLength,
                 s |-> local.s, targetLen |-> local.targetLen,
                 currentLen |-> local.currentLen, segIdx |-> segIdx,
                 seg |-> input.pathSegs[segIdx + 1],
                 segTarget |-> Sub(local.targetLen, local.currentLen),
                 t |-> Zero, prev |-> input.pathSegs[segIdx + 1].p1,
                 walked |-> Zero, i |-> 1, reached |-> FALSE]
  /\ pc' = "walk"
  /\ UNCHANGED <<input, output, editorVars>>

\* lines 637-652: an iteration that does not break
fineStep ==
  /\ pc = "walk"
  /\ local.i <= fineSteps
  /\ \E c \in {chordTo(local.seg, local.prev, local.i, fineSteps)} :
       /\ ~reaches(local.walked, c.stepLen, local.segTarget)
       /\ local' = [local EXCEPT !.walked = Add(@, c.stepLen), !.prev = c.curr,
                                 !.i = @ + 1]
  /\ UNCHANGED <<pc, input, output, editorVars>>

\* lines 642-648: the walk breaks with t interpolated, or ends with t as it is
leaveWalk ==
  /\ pc = "walk"
  /\ IF local.i > fineSteps
     THEN local' = local
     ELSE \E c \in {chordTo(local.seg, local.prev, local.i, fineSteps)} :
            /\ reaches(local.walked, c.stepLen, local.segTarget)
            /\ local' = [local EXCEPT
                           !.t = interpolateT(local.i, local.walked, c.stepLen,
                                              local.segTarget),
                           !.reached = TRUE]
  /\ pc' = "sample"
  /\ UNCHANGED <<input, output, editorVars>>

\* lines 655-662
returnSample ==
  /\ pc = "sample"
  /\ output' = sampleAt(local.seg, local.t)
  /\ pc' = "done"
  /\ UNCHANGED <<input, local, editorVars>>

NextSample ==
  \/ returnNull
  \/ enterSample
  \/ measureSegment
  \/ wrapTarget
  \/ scanSegment
  \/ leaveScan
  \/ fineStep
  \/ leaveWalk
  \/ returnSample

SpecSample == InitSample /\ [][NextSample]_vars

\* the children update3D leaves in ribsGroup: per pair of adjacent nests a rib
\* mesh (outer shape, hole, extrusion, placement) and a pivot marker
\* the rib mesh of the nests k and k + 1 (k from 0)
ribMesh(nests, s, k) ==
  [kind           |-> "rib",
   outer          |-> nests[k + 1],
   hole           |-> nests[k + 2],
   depth          |-> s.thickness,
   zStep          |-> Mul(N(k), s.thickness),
   angleDeg       |-> Mul(N(k), s.baseRotation),
   pivotAt        |-> s.pivotStart,
   gradientCenter |-> s.gradientCenter,
   colorStart     |-> s.colorStart,
   colorEnd       |-> s.colorEnd,
   colorSides     |-> s.colorSides]

\* the pivot marker of rib k
pivotMarker(s, k) ==
  [kind    |-> "pivot",
   radius  |-> Div(s.thickness, N(2)),
   pivotAt |-> s.pivotStart,
   zStep   |-> Mul(N(k), s.thickness)]

\* outerCurve[0].p1 and innerCurve[0].p1 exist
hasFirstSegments(nests, k) == Len(nests[k + 1]) > 0 /\ Len(nests[k + 2]) > 0

\* the exception a read of .p1 of undefined throws
TypeError == [thrown |-> "TypeError"]

\* a function that has returned has thrown nothing
nothing == <<>>

\* the condition of the rib loop with one pair too few
moreRibsButLast(nests, k) == k < Len(nests) - 2

\* the condition of the rib loop
moreRibs(nests, k) == k < Len(nests) - 1

\* the condition of the loop that clears, with > 1 for > 0
hasChildrenButOne(children) == Len(children) > 1

\* the condition of the loop that clears the old ribs
hasChildren(children) == Len(children) > 0

\* lines 127-139: the children are removed from the first on
clearRibs(children) ==
  Loop(LAMBDA l : hasChildren(l.children),
       LAMBDA l : [children |-> Tail(l.children)],
       [children |-> children], Len(children)).children

\* lines 167-287: the rib loop on the cleared group; the read of .p1 of the
\* first segment of an empty curve throws and leaves the loop, with the
\* children added so far in the group
ribLayers(children, nests, s) ==
  Loop(LAMBDA l : moreRibs(nests, l.k) /\ l.thrown = nothing,
       LAMBDA l : IF ~hasFirstSegments(nests, l.k)
                  THEN [l EXCEPT !.thrown = TypeError]
                  ELSE [l EXCEPT !.children = @ \o <<ribMesh(nests, s, l.k),
                                                     pivotMarker(s, l.k)>>,
                                 !.k = @ + 1],
       [k |-> 0, children |-> children, thrown |-> nothing], Len(nests))

\* the group the call leaves and what it has thrown
left(l) == [ribsGroup |-> Group(l.children), thrown |-> l.thrown]

\* lines 10-102: ribsGroup after init3D(containerId); it returns at line 12
\* when the document has no such container, and assigns a new empty group
\* at line 95 when it has
init3D(group, found) == IF ~found THEN group ELSE Group(<<>>)

\* update3D(nests, state) with ribsGroup as given: it returns at line 124
\* while ribsGroup is undefined; otherwise the old children are removed, then
\* the new are built
update3D(group, nests, s) ==
  IF group = undefined THEN [ribsGroup |-> group, thrown |-> nothing]
  ELSE IF Len(nests) < 2
  THEN [ribsGroup |-> Group(clearRibs(group.children)), thrown |-> nothing]
  ELSE left(ribLayers(clearRibs(group.children), nests, s))

\* the 2D page after render(s) with the nests it computed, on the page it
\* finds
renderPage(s, nests, page) ==
  [shown         |-> IF s.viewMode = "3d" THEN "canvas3d" ELSE "canvas2d",
   curveGroup    |-> [k \in 1..Len(nests) |-> pathToSvgD(nests[k])] \o <<>>,
   stops         |-> <<s.colorStart, s.colorEnd>>,
   handles       |-> [i \in 1..Len(s.points) |->
                        [cx |-> s.points[i].x, cy |-> s.points[i].y,
                         fill |-> IF i - 1 = s.selectedPointIndex THEN "#ff0" ELSE "#fff"]]
                       \o <<>>,
   cross         |-> s.convergence,
   controls      |-> updateUIControls(s, page),
   viewBox       |-> s.viewport,
   activeElement |-> page.activeElement]

\* lines 84-142 after update3D has left the group as built: what it has thrown
\* leaves render before the 2D page is written, with the class toggles done
renderAfter(s, page, nests, built) ==
  IF built.thrown # nothing
  THEN [page |-> [page EXCEPT !.shown = "canvas3d"], ribs |-> built.ribsGroup,
        thrown |-> built.thrown]
  ELSE [page |-> renderPage(s, nests, page), ribs |-> built.ribsGroup, thrown |-> nothing]

\* lines 67-82: update3D is called in the 3d view only
renderNests(s, ribs, page, nests) ==
  renderAfter(s, page, nests,
              IF s.viewMode = "3d" THEN update3D(ribs, nests, s)
              ELSE [ribsGroup |-> ribs, thrown |-> nothing])

\* render(s): [page, ribs, thrown], given the page and ribsGroup before
render(s, ribs, page) ==
  renderNests(s, ribs, page,
              generateNests(getCatmullRomBezierPath(s.points), s.convergence,
                            s.startScale, s.endScale, s.minSize))

---------------------------------------------------------------------------
(* The editor: the state store (state.js) and the page load (main.js).     *)

\* number of calls of the store in a run of the loaded page
MaxOps == 2

\* number of calls of the store in a run of the state store on its own
MaxStoreOps == 3

\* number of subscribed listeners in a run
MaxListeners == 2

\* the exported state object as the module defines it
initialState ==
  [points             |-> initialPoints,
   convergence        |-> initialConvergence,
   startScale         |-> Q(9, 10),
   endScale           |-> Q(9, 10),
   minSize            |-> N(1),
   emphasizeBase      |-> FALSE,
   viewMode           |-> "2d",
   thickness          |-> Q(11, 100),
   zRise              |-> Q(5, 100),
   baseRotation       |-> Zero,
   pivotStart         |-> Zero,
   pivotEnd           |-> Q(2, 10),
   gradientCenter     |-> Q(1, 2),
   colorStart         |-> "#646cff",
   colorEnd           |-> "#ff4488",
   colorSides         |-> "#3d2817",
   selectedPointIndex |-> -1,
   isDragging         |-> FALSE,
   dragTarget         |-> "null",
   dragIndex          |-> -1,
   viewport           |-> [x |-> Zero, y |-> Zero, w |-> N(20), h |-> N(15)],
   ppi                |-> N(40),
   pan                |-> Pt(Zero, Zero)]

\* per listener, what it has got from the call of the store under way
unheard == [i \in 1..Len(listeners) |-> [calls |-> 0, seen |-> <<>>]]

\* state.js on its own: nothing is subscribed and there is no page
InitStore ==
  /\ state = initialState
  /\ listeners = <<>>
  /\ heard = <<>>
  /\ dom = <<>>
  /\ ribsGroup = undefined
  /\ opsLeft = MaxStoreOps
  /\ before = initialState
  /\ pc = "idle"
  /\ input = <<>>
  /\ output = <<>>
  /\ local = <<>>
  /\ mouse = <<>>

\* main.js: let isPanning = false, panStart = viewStart = { x: 0, y: 0 },
\* mouseDownPos = null; coords is the text of the coordinate readout, which no
\* handler has written yet
initialMouse ==
  [isPanning    |-> FALSE,
   panStart     |-> [x |-> Zero, y |-> Zero],
   viewStart    |-> [x |-> Zero, y |-> Zero],
   mouseDownPos |-> <<>>,
   coords       |-> ""]

\* main.js at load (lines 404-406): init3D finds the container render shows
\* and hides and creates the empty ribsGroup, render is subscribed and then
\* called once directly
Init ==
  /\ state = initialState
  /\ listeners = <<"render">>
  /\ heard = <<[calls |-> 0, seen |-> <<>>]>>
  /\ \E r \in {render(initialState, init3D(undefined, TRUE), blankPage)} : dom = r.page /\ ribsGroup = r.ribs
  /\ opsLeft = MaxOps
  /\ before = initialState
  /\ pc = "idle"
  /\ input = <<>>
  /\ output = <<>>
  /\ local = <<>>
  /\ mouse = initialMouse

\* a call of the store begins
called(op, args) ==
  /\ pc = "idle"
  /\ opsLeft > 0
  /\ opsLeft' = opsLeft - 1
  /\ before' = state
  /\ input' = [op |-> op, args |-> args]
  /\ output' = nothing

\* the callbacks subscribed besides render: one that returns and one that
\* throws
Callbacks == {"observer", "faulty"}

\* what the callback that throws throws
listenerError == [thrown |-> "Error"]

\* subscribe(callback)
subscribe ==
  \E callback \in Callbacks :
    /\ called("subscribe", <<callback>>)
    /\ Len(listeners) < MaxListeners
    /\ listeners' = Append(listeners, callback)
    /\ heard' = [i \in 1..(Len(listeners) + 1) |-> [calls |-> 0, seen |-> <<>>]]
    /\ UNCHANGED <<state, dom, ribsGroup, pc, local>>

\* a state action that leaves the state as s and enters notify(), called
\* from a listener of a control that the browser has left the page to
commitOn(op, args, s, page) ==
  /\ called(op, args)
  /\ state' = s
  /\ dom' = page
  /\ heard' = unheard
  /\ pc' = "notify"
  /\ local' = 0
  /\ UNCHANGED <<listeners, ribsGroup>>

\* a state action that leaves the state as s and enters notify()
commit(op, args, s) == commitOn(op, args, s, dom)

\* a state action that changes nothing and calls notify() all the same
ignoreButNotify(op, args) == commit(op, args, state)

\* a state action that returns without doing anything
ignore(op, args) ==
  /\ called(op, args)
  /\ heard' = unheard
  /\ UNCHANGED <<state, listeners, dom, ribsGroup, pc, local>>

\* cb(s): the page and the ribs the callback leaves and what it has thrown
cbCalled(cb, s, ribs, page) ==
  IF cb = "render" THEN render(s, ribs, page)
  ELSE [page |-> page, ribs |-> ribs,
        thrown |-> IF cb = "faulty" THEN listenerError ELSE nothing]

\* the callback has returned and forEach goes on, or it has thrown and the
\* exception leaves forEach, notify and the state action
calledBack(r) ==
  /\ dom' = r.page
  /\ ribsGroup' = r.ribs
  /\ IF r.thrown = nothing
     THEN /\ local' = local + 1
          /\ UNCHANGED <<pc, output>>
     ELSE /\ local' = <<>>
          /\ pc' = "idle"
          /\ output' = r.thrown

\* notify() whose callbacks get the state as it was before the call
callListenerStale ==
  /\ pc = "notify"
  /\ local < Len(listeners)
  /\ heard' = [heard EXCEPT ![local + 1] = [calls |-> @.calls + 1, seen |-> before]]
  /\ calledBack(cbCalled(listeners[local + 1], before, ribsGroup, dom))
  /\ UNCHANGED <<state, listeners, opsLeft, before, input, mouse>>

\* notify(): listeners.forEach(cb => cb(state)), one callback; local is the
\* number of callbacks made
callListener ==
  /\ pc = "notify"
  /\ local < Len(listeners)
  /\ heard' = [heard EXCEPT ![local + 1] = [calls |-> @.calls + 1, seen |-> state]]
  /\ calledBack(cbCalled(listeners[local + 1], state, ribsGroup, dom))
  /\ UNCHANGED <<state, listeners, opsLeft, before, input, mouse>>

\* notify() and with it the state action return
returnFromNotify ==
  /\ pc = "notify"
  /\ local = Len(listeners)
  /\ pc' = "idle"
  /\ local' = <<>>
  /\ UNCHANGED <<state, listeners, heard, dom, ribsGroup, opsLeft, before, input, output, mouse>>

\* Math.hypot(p.x - q.x, p.y - q.y)
distTo(p, q) == MathHypot(Sub(p.x, q.x), Sub(p.y, q.y))

\* the point of the segment at t: finalX, finalY
finalAt(v, w, t) == Pt(Add(v.x, Mul(t, Sub(w.x, v.x))), Add(v.y, Mul(t, Sub(w.y, v.y))))

\* t of the projection of p, before the clamp
projectionT(p, v, w, l2) ==
  Div(Add(Mul(Sub(p.x, v.x), Sub(w.x, v.x)), Mul(Sub(p.y, v.y), Sub(w.y, v.y))), l2)

\* the point the distance is taken to: v if l2 === 0
nearestOn(p, v, w, l2) ==
  IF IsZero(l2) THEN v ELSE finalAt(v, w, clamp01(projectionT(p, v, w, l2)))

\* l2 = (v.x - w.x) ** 2 + (v.y - w.y) ** 2
sumOfSquares(p) == Add(p[1], p[2])

squaredLength(v, w) == sumOfSquares(powers(<<<<Sub(v.x, w.x), 2>>, <<Sub(v.y, w.y), 2>>>>))

distToSegment(p, v, w) == distTo(p, nearestOn(p, v, w, squaredLength(v, w)))

\* if (d < minDist) { minDist = d; insertIdx = i + 1; }
nearerEdge(l, d) ==
  IF Lt(d, l.minDist) THEN [i |-> l.i + 1, minDist |-> d, insertIdx |-> l.i + 1]
  ELSE [l EXCEPT !.i = @ + 1]

nearerEdgeOrEqual(l, d) ==
  IF Le(d, l.minDist) THEN [i |-> l.i + 1, minDist |-> d, insertIdx |-> l.i + 1]
  ELSE [l EXCEPT !.i = @ + 1]

\* the loop of addPoint with d <= minDist for d < minDist
nearestEdgeLast(points, p) ==
  Loop(LAMBDA l : l.i < Len(points),
       LAMBDA l : nearerEdgeOrEqual(l, distToSegment(p, points[l.i + 1],
                                          points[((l.i + 1) % Len(points)) + 1])),
       [i |-> 0, minDist |-> PosInf, insertIdx |-> -1], Len(points)).insertIdx

\* the loop of addPoint: insertIdx as the loop leaves it
nearestEdge(points, p) ==
  Loop(LAMBDA l : l.i < Len(points),
       LAMBDA l : nearerEdge(l, distToSegment(p, points[l.i + 1],
                                          points[((l.i + 1) % Len(points)) + 1])),
       [i |-> 0, minDist |-> PosInf, insertIdx |-> -1], Len(points)).insertIdx

\* Array.prototype.splice(start, deleteCount, ...items) on a sequence
splice(a, start, deleteCount, items) ==
  LET n     == Len(a)
      from  == IF start < 0 THEN (IF n + start > 0 THEN n + start ELSE 0)
               ELSE (IF start < n THEN start ELSE n)
      count == IF deleteCount < 0 THEN 0
               ELSE IF deleteCount < n - from THEN deleteCount ELSE n - from
  IN  SubSeq(a, 1, from) \o items \o SubSeq(a, from + count + 1, n)

\* arguments of the calls
AddedPoints == {Pt(N(9), N(5)), Pt(N(3), N(3))}

UpdateIndices == {-1, 0, 4}

DeleteIndices == {-1, 0, 9}

addPoint(p) ==
  IF Len(state.points) < 3
  THEN commit("addPoint", <<p>>, [state EXCEPT !.points = Append(state.points, p)])
  ELSE commit("addPoint", <<p>>,
              [state EXCEPT !.points =
                 splice(state.points, nearestEdge(state.points, p), 0, <<p>>)])

updatePoint(index, p) ==
  IF index >= 0 /\ index < Len(state.points)
  THEN commit("updatePoint", <<index, p>>, [state EXCEPT !.points[index + 1] = p])
  ELSE ignore("updatePoint", <<index, p>>)

setConvergence(p) ==
  commit("setConvergence", <<p>>, [state EXCEPT !.convergence = p])

\* deletePoint without the check of the length
deletePointUnguarded(index) ==
  commit("deletePoint", <<index>>,
         [state EXCEPT !.points = splice(state.points, index, 1, <<>>),
                       !.selectedPointIndex = -1])

\* deletePoint without the reset of the selection
deletePointKeepsSelection(index) ==
  IF Len(state.points) > 3
  THEN commit("deletePoint", <<index>>,
              [state EXCEPT !.points = splice(state.points, index, 1, <<>>)])
  ELSE ignore("deletePoint", <<index>>)

deletePoint(index) ==
  IF Len(state.points) > 3
  THEN commit("deletePoint", <<index>>,
              [state EXCEPT !.points = splice(state.points, index, 1, <<>>),
                            !.selectedPointIndex = -1])
  ELSE ignore("deletePoint", <<index>>)

setViewport(viewport) ==
  commit("setViewport", <<viewport>>, [state EXCEPT !.viewport = viewport])

\* the exported notify(), called on its own: the state is left as it is
notify == commit("notify", <<>>, state)

setStartScale ==
  \E val \in {Q(1, 4)} : commit("setStartScale", <<val>>, [state EXCEPT !.startScale = val])

setEndScale ==
  \E val \in {Q(1, 2)} : commit("setEndScale", <<val>>, [state EXCEPT !.endScale = val])

setMinSize ==
  \E val \in {N(3)} : commit("setMinSize", <<val>>, [state EXCEPT !.minSize = val])

setEmphasis ==
  \E val \in {TRUE} : commit("setEmphasis", <<val>>, [state EXCEPT !.emphasizeBase = val])

setViewMode ==
  \E mode \in {"2d", "3d"} : commit("setViewMode", <<mode>>, [state EXCEPT !.viewMode = mode])

setThickness ==
  \E val \in {Q(1, 4)} : commit("setThickness", <<val>>, [state EXCEPT !.thickness = val])

setZRise ==
  \E val \in {Q(1, 10)} : commit("setZRise", <<val>>, [state EXCEPT !.zRise = val])

setBaseRotation ==
  \E val \in {N(15)} : commit("setBaseRotation", <<val>>, [state EXCEPT !.baseRotation = val])

setPivotStart ==
  \E val \in {Q(1, 2)} : commit("setPivotStart", <<val>>, [state EXCEPT !.pivotStart = val])

setPivotEnd ==
  \E val \in {Q(1, 2)} : commit("setPivotEnd", <<val>>, [state EXCEPT !.pivotEnd = val])

setGradientCenter ==
  \E val \in {Q(1, 4)} :
    commit("setGradientCenter", <<val>>, [state EXCEPT !.gradientCenter = val])

setColorStart ==
  \E val \in {"#000000"} : commit("setColorStart", <<val>>, [state EXCEPT !.colorStart = val])

setColorEnd ==
  \E val \in {"#ffffff"} : commit("setColorEnd", <<val>>, [state EXCEPT !.colorEnd = val])

setColorSides ==
  \E val \in {"#808080"} : commit("setColorSides", <<val>>, [state EXCEPT !.colorSides = val])

\* the calls of the store made from outside the mouse handlers leave the
\* variables of main.js alone
Next ==
  \/ callListener
  \/ returnFromNotify
  \/ UNCHANGED mouse /\ subscribe
  \/ UNCHANGED mouse /\ notify
  \/ UNCHANGED mouse /\ setViewport([x |-> Zero, y |-> Zero, w |-> N(10), h |-> N(10)])
  \/ UNCHANGED mouse /\ \E p \in AddedPoints : addPoint(p)
  \/ UNCHANGED mouse /\ \E index \in UpdateIndices : updatePoint(index, Pt(N(1), N(5)))
  \/ UNCHANGED mouse /\ setConvergence(Pt(N(4), N(5)))
  \/ UNCHANGED mouse /\ \E index \in DeleteIndices : deletePoint(index)
  \/ UNCHANGED mouse /\ setStartScale
  \/ UNCHANGED mouse /\ setEndScale
  \/ UNCHANGED mouse /\ setMinSize
  \/ UNCHANGED mouse /\ setEmphasis
  \/ UNCHANGED mouse /\ setViewMode
  \/ UNCHANGED mouse /\ setThickness
  \/ UNCHANGED mouse /\ setZRise
  \/ UNCHANGED mouse /\ setBaseRotation
  \/ UNCHANGED mouse /\ setPivotStart
  \/ UNCHANGED mouse /\ setPivotEnd
  \/ UNCHANGED mouse /\ setGradientCenter
  \/ UNCHANGED mouse /\ setColorStart
  \/ UNCHANGED mouse /\ setColorEnd
  \/ UNCHANGED mouse /\ setColorSides

Spec == Init /\ [][Next]_vars

SpecStore == InitStore /\ [][Next]_vars

\* the state store with the page loaded on it, or on its own
SpecNotify == (Init \/ InitStore) /\ [][Next]_vars

---------------------------------------------------------------------------
(* addPoint on its own, on control polygons of two points and more.        *)

\* number of calls of addPoint in a run
MaxAdds == 2

\* a polygon whose first edge has length 0
doubledPoints == <<Pt(N(2), N(5)), Pt(N(2), N(5)), Pt(N(8), N(5)), Pt(N(5), N(8))>>

AddPolygons == {twoPoints, triangle, initialPoints, doubledPoints}

\* points near one edge, near a vertex two edges share, near the last edge, and
\* at the same distance from two edges (equal doubles: the first edge is kept)
AddTargets ==
  {Pt(N(3), N(3)), Pt(N(9), N(5)), Pt(N(5), N(9)), Pt(N(3), N(7)), Pt(N(1), N(5)),
   Pt(N(5), N(4))}

InitAdd ==
  /\ state \in {[initialState EXCEPT !.points = points] : points \in AddPolygons}
  /\ listeners = <<"observer">>
  /\ heard = <<[calls |-> 0, seen |-> <<>>]>>
  /\ dom = <<>>
  /\ ribsGroup = undefined
  /\ opsLeft = MaxAdds
  /\ before = state
  /\ pc = "idle"
  /\ input = <<>>
  /\ output = <<>>
  /\ local = <<>>
  /\ mouse = <<>>

NextAdd ==
  \/ UNCHANGED mouse /\ \E p \in AddTargets : addPoint(p)
  \/ callListener
  \/ returnFromNotify

SpecAdd == InitAdd /\ [][NextAdd]_vars

---------------------------------------------------------------------------
(* main.js: the mouse and panel handlers of the editor.                    *)

\* number of editor events in a run of the loaded page
MaxEvents == 2

\* a handler that returns without a call of the store
handled(op, args) ==
  /\ pc = "idle"
  /\ opsLeft > 0
  /\ opsLeft' = opsLeft - 1
  /\ input' = [op |-> op, args |-> args]
  /\ UNCHANGED <<listeners, heard, before, pc, local>>

\* a handler that returns and has changed nothing
returned(op, args) ==
  /\ handled(op, args)
  /\ output' = nothing
  /\ UNCHANGED <<state, dom, ribsGroup>>

\* svgEl.getBoundingClientRect(): the canvas is 800 by 600 pixels and its
\* corner is the corner of the client area
outputRect == [width |-> N(800), height |-> N(600)]

\* getMousePt(evt): the inverse of the screen transform, which maps the
\* canvas onto the viewBox that render wrote
getMousePt(evt) ==
  Pt(Add(dom.viewBox.x, Mul(evt.clientX, Div(dom.viewBox.w, outputRect.width))),
     Add(dom.viewBox.y, Mul(evt.clientY, Div(dom.viewBox.h, outputRect.height))))

\* the hit radius of the handles, in inches
hitRadius == Q(4, 10)

\* if (d < minDist) { minDist = d; hitIndex = i; }
nearerPoint(l, d) ==
  IF Lt(d, l.minDist) THEN [i |-> l.i + 1, minDist |-> d, hitIndex |-> l.i]
  ELSE [l EXCEPT !.i = @ + 1]

\* the hit test of mousedown and dblclick: the index of the nearest point
\* within the hit radius, or -1
hitTest(points, pt) ==
  Loop(LAMBDA l : l.i < Len(points),
       LAMBDA l : nearerPoint(l, distTo(pt, points[l.i + 1])),
       [i |-> 0, minDist |-> hitRadius, hitIndex |-> -1], Len(points)).hitIndex

\* the checks of click: pt is on the convergence point or on a control point
onHandle(s, pt) ==
  \/ Lt(MathHypot(Sub(pt.x, s.convergence.x), Sub(pt.y, s.convergence.y)), hitRadius)
  \/ \E i \in 1..Len(s.points) :
       Lt(MathHypot(Sub(pt.x, s.points[i].x), Sub(pt.y, s.points[i].y)), hitRadius)

\* both mousedown listeners of the canvas, in the order they were added
mousedown(e) ==
  /\ handled("mousedown", <<e>>)
  /\ IF e.button = 1 \/ (e.button = 0 /\ e.shiftKey)
     THEN /\ mouse' = [mouse EXCEPT !.isPanning = TRUE,
                                    !.panStart = [x |-> e.clientX, y |-> e.clientY],
                                    !.viewStart = state.viewport,
                                    !.mouseDownPos = [x |-> e.clientX, y |-> e.clientY]]
          /\ output' = nothing
          /\ UNCHANGED <<state, dom, ribsGroup>>
     ELSE /\ mouse' = [mouse EXCEPT !.mouseDownPos = [x |-> e.clientX, y |-> e.clientY]]
          /\ \E pt \in {getMousePt(e)} :
               IF Lt(MathHypot(Sub(pt.x, state.convergence.x),
                               Sub(pt.y, state.convergence.y)), hitRadius)
               THEN /\ state' = [state EXCEPT !.isDragging = TRUE,
                                              !.dragTarget = "convergence",
                                              !.dragIndex = -1]
                    /\ output' = nothing
                    /\ UNCHANGED <<dom, ribsGroup>>
               ELSE \E hitIndex \in {hitTest(state.points, pt)} :
                    \E s \in {IF hitIndex # -1
                              THEN [state EXCEPT !.isDragging = TRUE,
                                                 !.dragTarget = "point",
                                                 !.dragIndex = hitIndex,
                                                 !.selectedPointIndex = hitIndex]
                              ELSE [state EXCEPT !.selectedPointIndex = -1]} :
                      /\ state' = s
                      /\ \E r \in {render(s, ribsGroup, dom)} :
                           dom' = r.page /\ ribsGroup' = r.ribs /\ output' = r.thrown

\* the text of the coordinate readout, t the texts of x and y
coordsText(t) == t[1] \o "\", " \o t[2] \o "\""

mousemove(e) ==
  \E coords \in {getMousePt(e)} :
    /\ mouse' = [mouse EXCEPT !.coords = coordsText(fixedAll(<<coords.x, coords.y>>, 2))]
    /\ IF mouse.isPanning
       THEN setViewport(
              [state.viewport EXCEPT
                 !.x = Sub(mouse.viewStart.x,
                           Mul(Sub(e.clientX, mouse.panStart.x),
                               Div(state.viewport.w, outputRect.width))),
                 !.y = Sub(mouse.viewStart.y,
                           Mul(Sub(e.clientY, mouse.panStart.y),
                               Div(state.viewport.h, outputRect.height)))])
       ELSE IF ~state.isDragging THEN returned("mousemove", <<e>>)
       ELSE IF state.dragTarget = "convergence" THEN setConvergence(coords)
       ELSE IF state.dragTarget = "point" THEN updatePoint(state.dragIndex, coords)
       ELSE returned("mousemove", <<e>>)

\* the mouseup listener of the window
mouseup ==
  /\ handled("mouseup", <<>>)
  /\ state' = [state EXCEPT !.isDragging = FALSE, !.dragTarget = "null", !.dragIndex = -1]
  /\ mouse' = [mouse EXCEPT !.isPanning = FALSE]
  /\ output' = nothing
  /\ UNCHANGED <<dom, ribsGroup>>

dblclick(e) ==
  /\ UNCHANGED mouse
  /\ \E hitIndex \in {hitTest(state.points, getMousePt(e))} :
       IF hitIndex # -1 THEN deletePoint(hitIndex)
       ELSE returned("dblclick", <<e>>)

\* the click listener without its checks of the handles
clickOnHandles(e) ==
  /\ UNCHANGED mouse
  /\ IF mouse.mouseDownPos = <<>> THEN returned("click", <<e>>)
     ELSE IF Gt(MathHypot(Sub(e.clientX, mouse.mouseDownPos.x),
                          Sub(e.clientY, mouse.mouseDownPos.y)), N(5))
     THEN returned("click", <<e>>)
     ELSE addPoint(getMousePt(e))

click(e) ==
  /\ UNCHANGED mouse
  /\ IF mouse.mouseDownPos = <<>> THEN returned("click", <<e>>)
     ELSE IF Gt(MathHypot(Sub(e.clientX, mouse.mouseDownPos.x),
                          Sub(e.clientY, mouse.mouseDownPos.y)), N(5))
     THEN returned("click", <<e>>)
     ELSE \E pt \in {getMousePt(e)} :
            IF onHandle(state, pt) THEN returned("click", <<e>>) ELSE addPoint(pt)

\* the change listener of the X field; value is parseFloat(e.target.value)
changePtX(value) ==
  /\ UNCHANGED mouse
  /\ IF state.selectedPointIndex # -1
     THEN updatePoint(state.selectedPointIndex,
                      Pt(value, state.points[state.selectedPointIndex + 1].y))
     ELSE returned("changePtX", <<value>>)

\* the change listener of the Y field
changePtY(value) ==
  /\ UNCHANGED mouse
  /\ IF state.selectedPointIndex # -1
     THEN updatePoint(state.selectedPointIndex,
                      Pt(state.points[state.selectedPointIndex + 1].x, value))
     ELSE returned("changePtY", <<value>>)

\* the click listener of the delete button
clickDeleteBtn ==
  /\ UNCHANGED mouse
  /\ IF state.selectedPointIndex # -1 THEN deletePoint(state.selectedPointIndex)
     ELSE returned("clickDeleteBtn", <<>>)

\* the input listener of the startScale slider: the browser has given the
\* slider the focus and the value the user dragged it to
inputStartScale(val) ==
  /\ UNCHANGED mouse
  /\ commitOn("setStartScale", <<val>>, [state EXCEPT !.startScale = val],
              [dom EXCEPT !.activeElement = "startScale", !.controls.startScale = val])

\* the input listener of the endScale slider
inputEndScale(val) ==
  /\ UNCHANGED mouse
  /\ commitOn("setEndScale", <<val>>, [state EXCEPT !.endScale = val],
              [dom EXCEPT !.activeElement = "endScale", !.controls.endScale = val])

\* the focus moves, and no listener of main.js is called
focus(el) ==
  /\ handled("focus", <<el>>)
  /\ dom.activeElement # el
  /\ dom' = [dom EXCEPT !.activeElement = el]
  /\ output' = nothing
  /\ UNCHANGED <<state, ribsGroup, mouse>>

\* a mouse event at a place of the client area, in pixels
MouseEvent(clientX, clientY, button, shiftKey) ==
  [clientX |-> N(clientX), clientY |-> N(clientY), button |-> button, shiftKey |-> shiftKey]

\* the left button on the last control point, on the convergence point and
\* on empty canvas, and the two ways to begin panning
EditorEvents ==
  {MouseEvent(200, 320, 0, FALSE), MouseEvent(200, 200, 0, FALSE),
   MouseEvent(360, 360, 0, FALSE), MouseEvent(360, 360, 1, FALSE),
   MouseEvent(200, 320, 0, TRUE)}

\* the places the pointer moves to and is clicked at
EditorPlaces == {e \in EditorEvents : e.button = 0 /\ ~e.shiftKey}

\* parseFloat of the text of a coordinate field: a number, and NaN of the
\* empty field
FieldValues == {N(3), NaN}

\* main.js at load, with MaxEvents events to come
InitEditor ==
  /\ state = initialState
  /\ listeners = <<"render">>
  /\ heard = <<[calls |-> 0, seen |-> <<>>]>>
  /\ \E r \in {render(initialState, init3D(undefined, TRUE), blankPage)} : dom = r.page /\ ribsGroup = r.ribs
  /\ opsLeft = MaxEvents
  /\ before = initialState
  /\ pc = "idle"
  /\ input = <<>>
  /\ output = <<>>
  /\ local = <<>>
  /\ mouse = initialMouse

NextEditor ==
  \/ callListener
  \/ returnFromNotify
  \/ \E e \in EditorEvents : mousedown(e)
  \/ \E e \in EditorPlaces : mousemove(e)
  \/ mouseup
  \/ \E e \in EditorPlaces : click(e)
  \/ \E e \in EditorPlaces : dblclick(e)
  \/ \E value \in FieldValues : changePtX(value)
  \/ \E value \in FieldValues : changePtY(value)
  \/ clickDeleteBtn
  \/ inputStartScale(Q(1, 2))
  \/ inputEndScale(Q(3, 4))
  \/ \E el \in FocusElements : focus(el)

SpecEditor == InitEditor /\ [][NextEditor]_vars

---------------------------------------------------------------------------
(* A double-click on empty canvas, on control polygons of three and four   *)
(* points.                                                                 *)

\* the events of a double-click, in the order the browser sends them
doubleClick ==
  <<"mousedown", "mouseup", "click", "mousedown", "mouseup", "click", "dblclick">>

\* the event that comes next
nextEvent == IF opsLeft > 0 THEN doubleClick[Len(doubleClick) - opsLeft + 1] ELSE "none"

\* pt is farther than the hit radius from the convergence point and from
\* every control point
emptyCanvas(s, pt) ==
  /\ Gt(MathHypot(Sub(pt.x, s.convergence.x), Sub(pt.y, s.convergence.y)), hitRadius)
  /\ \A i \in 1..Len(s.points) :
       Gt(MathHypot(Sub(pt.x, s.points[i].x), Sub(pt.y, s.points[i].y)), hitRadius)

\* the first event is sent on empty canvas, the later ones where the first was
atPlace(e) ==
  IF mouse.mouseDownPos = <<>> THEN emptyCanvas(state, getMousePt(e))
  ELSE e.clientX = mouse.mouseDownPos.x /\ e.clientY = mouse.mouseDownPos.y

DoubleClickPolygons == {initialPoints, triangle, wideDiamond}

\* places outside, inside and on an edge of the polygons, with and without
\* the shift key
DoubleClickEvents ==
  {MouseEvent(x, y, 0, shiftKey) :
     x \in {360, 260, 80}, y \in {360, 140}, shiftKey \in BOOLEAN}

InitDoubleClick ==
  /\ state \in {[initialState EXCEPT !.points = points] : points \in DoubleClickPolygons}
  /\ listeners = <<"render">>
  /\ heard = <<[calls |-> 0, seen |-> <<>>]>>
  /\ \E r \in {render(state, init3D(undefined, TRUE), blankPage)} : dom = r.page /\ ribsGroup = r.ribs
  /\ opsLeft = Len(doubleClick)
  /\ before = state
  /\ pc = "idle"
  /\ input = <<>>
  /\ output = <<>>
  /\ local = <<>>
  /\ mouse = initialMouse

NextDoubleClick ==
  \/ callListener
  \/ returnFromNotify
  \/ nextEvent = "mousedown" /\ \E e \in DoubleClickEvents : atPlace(e) /\ mousedown(e)
  \/ nextEvent = "mouseup" /\ mouseup
  \/ nextEvent = "click" /\ \E e \in DoubleClickEvents : atPlace(e) /\ ~e.shiftKey /\ click(e)
  \/ nextEvent = "dblclick"
       /\ \E e \in DoubleClickEvents : atPlace(e) /\ ~e.shiftKey /\ dblclick(e)

SpecDoubleClick == InitDoubleClick /\ [][NextDoubleClick]_vars

---------------------------------------------------------------------------
(* view3d.js on its own: init3D, and update3D one loop iteration per step,  *)
(* called again and again.                                                 *)

\* number of calls of update3D in a run
MaxRibCalls == 2

\* nest sequences of 1 to 4 curves, and the one of the empty curve
RibNests ==
  {generateNests(getCatmullRomBezierPath(p[1]), initialConvergence, Q(1, 2), Q(1, 2), p[2]) :
     p \in {<<initialPoints, N(1)>>, <<initialPoints, N(3)>>, <<initialPoints, N(6)>>,
            <<initialPoints, N(7)>>, <<twoPoints, N(1)>>}}

RibStates ==
  {initialState,
   [initialState EXCEPT !.thickness = Q(1, 4), !.baseRotation = N(15),
                        !.pivotStart = Q(1, 4)]}

InitRibs ==
  /\ state = <<>>
  /\ listeners = <<>>
  /\ heard = <<>>
  /\ dom = <<>>
  /\ ribsGroup = undefined
  /\ opsLeft = MaxRibCalls
  /\ before = <<>>
  /\ pc = "idle"
  /\ input = <<>>
  /\ output = <<>>
  /\ local = <<>>
  /\ mouse = <<>>

ribVars == <<state, listeners, heard, dom, mouse>>

\* init3D(containerId) is called, on a document that has the container or
\* has not; before is ribsGroup as the call finds it
callInit3D ==
  /\ pc = "idle"
  /\ \E found \in BOOLEAN :
       /\ input' = [op |-> "init3D", found |-> found]
       /\ ribsGroup' = init3D(ribsGroup, found)
  /\ before' = ribsGroup
  /\ output' = nothing
  /\ UNCHANGED <<pc, local, opsLeft, ribVars>>

\* update3D(nests, state) is called; before is ribsGroup as the call finds it
\* line 124: if (!ribsGroup) return
callUpdate3D ==
  /\ pc = "idle"
  /\ opsLeft > 0
  /\ opsLeft' = opsLeft - 1
  /\ \E nests \in RibNests, s \in RibStates :
       input' = [op |-> "update3D", nests |-> nests, state |-> s]
  /\ before' = ribsGroup
  /\ output' = nothing
  /\ pc' = IF ribsGroup = undefined THEN "idle" ELSE "clear"
  /\ UNCHANGED <<ribsGroup, local, ribVars>>

\* lines 127-139: ribsGroup.remove(ribsGroup.children[0])
removeChild ==
  /\ pc = "clear"
  /\ hasChildren(ribsGroup.children)
  /\ ribsGroup' = Group(Tail(ribsGroup.children))
  /\ UNCHANGED <<pc, input, local, opsLeft, before, output, ribVars>>

\* line 141: return
returnFewNests ==
  /\ pc = "clear"
  /\ ~hasChildren(ribsGroup.children)
  /\ Len(input.nests) < 2
  /\ pc' = "idle"
  /\ UNCHANGED <<ribsGroup, input, local, opsLeft, before, output, ribVars>>

\* lines 143-167: the loop over the pairs begins
enterRibs ==
  /\ pc = "clear"
  /\ ~hasChildren(ribsGroup.children)
  /\ ~(Len(input.nests) < 2)
  /\ local' = [k |-> 0]
  /\ pc' = "ribs"
  /\ UNCHANGED <<ribsGroup, input, opsLeft, before, output, ribVars>>

\* lines 167-287: the mesh and the pivot marker of one pair are added, or the
\* read of the first segment of an empty curve throws
addRib ==
  /\ pc = "ribs"
  /\ moreRibs(input.nests, local.k)
  /\ IF hasFirstSegments(input.nests, local.k)
     THEN /\ ribsGroup' = Group(ribsGroup.children \o
                                  <<ribMesh(input.nests, input.state, local.k),
                                    pivotMarker(input.state, local.k)>>)
          /\ local' = [k |-> local.k + 1]
          /\ pc' = pc
          /\ output' = output
     ELSE /\ output' = TypeError
          /\ pc' = "idle"
          /\ UNCHANGED <<ribsGroup, local>>
  /\ UNCHANGED <<input, opsLeft, before, ribVars>>

\* line 167: the loop condition fails
returnRibs ==
  /\ pc = "ribs"
  /\ ~moreRibs(input.nests, local.k)
  /\ pc' = "idle"
  /\ UNCHANGED <<ribsGroup, input, local, opsLeft, before, output, ribVars>>

NextRibs ==
  \/ callInit3D
  \/ callUpdate3D
  \/ removeChild
  \/ returnFewNests
  \/ enterRibs
  \/ addRib
  \/ returnRibs

SpecRibs == InitRibs /\ [][NextRibs]_vars

---------------------------------------------------------------------------
(* update3D with numbers, after init3D or without it: the colour factor of *)
(* each vertex and the placement of each rib, one vertex and one rib per   *)
(* step.                                                                   *)

\* { x: props.point.x, y: -props.point.y, z: 0 }
flippedPoint(props) == [x |-> props.point.x, y |-> Neg(props.point.y), z |-> Zero]

\* lines 147-154 and 261-265: the point of the curve at pivotStart with y
\* flipped, or the fallback when the sampler returns null
pivotOf(curve, pivotStart, fallback) ==
  IF Len(curve) = 0 THEN fallback
  ELSE flippedPoint(getPathPropertiesAt(curve, pivotStart))

\* line 147: let globalPivot = { x: 0, y: 0, z: 0 }
noPivot == [x |-> Zero, y |-> Zero, z |-> Zero]

\* lines 197-202: minX and maxX over the four points of every segment
growExtent(l, seg) ==
  [i    |-> l.i + 1,
   minX |-> MathMin5(l.minX, seg.p1.x, seg.c1.x, seg.c2.x, seg.p2.x),
   maxX |-> MathMax5(l.maxX, seg.p1.x, seg.c1.x, seg.c2.x, seg.p2.x)]

\* const width = maxX - minX
extentOf(l) == [minX |-> l.minX, maxX |-> l.maxX, width |-> Sub(l.maxX, l.minX)]

xExtent(outerCurve) ==
  extentOf(Loop(LAMBDA l : l.i < Len(outerCurve),
                LAMBDA l : growExtent(l, outerCurve[l.i + 1]),
                [i |-> 0, minX |-> PosInf, maxX |-> NegInf], Len(outerCurve)))

\* the x of the vertices the shape gets from the curves themselves: the start
\* of every segment of the outer curve and of the hole (the vertices between
\* them are the tessellation's)
vertexXs(outerCurve, innerCurve) ==
  [i \in 1..Len(outerCurve) |-> outerCurve[i].p1.x]
    \o [i \in 1..Len(innerCurve) |-> innerCurve[i].p1.x] \o <<>>

\* line 212: let t = width > 0 ? (x - minX) / width : 0.5
normalizeX(x, minX, width) ==
  IF Gt(width, Zero) THEN Div(Sub(x, minX), width) ELSE Half

\* lines 215-222: "Apply gradient center shift"
gradientShift(gc, t) ==
  IF gc = Half THEN t
  ELSE IF Lt(t, gc) THEN Mul(Div(t, gc), Half)
  ELSE Add(Half, Mul(Div(Sub(t, gc), Sub(N(1), gc)), Half))

\* lines 210-224: the normalized x of a vertex, shifted and clamped
\* t = Math.max(0, Math.min(1, t)) of the shifted t
colorOf(t, shifted) ==
  [normalized |-> t, shifted |-> shifted, factor |-> MathMax(Zero, MathMin(N(1), shifted))]

colorAt(t, gc) == colorOf(t, gradientShift(gc, t))

vertexColor(x, extent, gc) == colorAt(normalizeX(x, extent.minX, extent.width), gc)

\* Math.cos and Math.sin of an angle in degrees that is a multiple of 90
quarterTurns(angleDeg) ==
  CHOOSE q \in 0..3 : wrap(Div(angleDeg, N(360))) = Q(q, 4)

cosDeg(angleDeg) ==
  IF angleDeg = NaN THEN NaN
  ELSE CASE quarterTurns(angleDeg) = 0 -> N(1)
         [] quarterTurns(angleDeg) = 2 -> N(-1)
         [] OTHER -> Zero

sinDeg(angleDeg) ==
  IF angleDeg = NaN THEN NaN
  ELSE CASE quarterTurns(angleDeg) = 1 -> N(1)
         [] quarterTurns(angleDeg) = 3 -> N(-1)
         [] OTHER -> Zero

\* lines 268-276: where a point q of the geometry comes to lie: translated
\* by -localPivot, rotated about Z, moved to the position of the mesh
\* the point (x, y) rotated by the angle of cosine c and sine s, at the
\* position of the mesh
rotatedTo(mesh, q, x, y, c, s) ==
  [x |-> Add(Sub(Mul(c, x), Mul(s, y)), mesh.position.x),
   y |-> Add(Add(Mul(s, x), Mul(c, y)), mesh.position.y),
   z |-> Add(q.z, mesh.position.z)]

worldOf(mesh, q) ==
  rotatedTo(mesh, q, Sub(q.x, mesh.localPivot.x), Sub(q.y, mesh.localPivot.y),
            cosDeg(mesh.angleDeg), sinDeg(mesh.angleDeg))

\* lines 168-278: the mesh of rib k with its colours and its placement
placedRib(nests, s, k, globalPivot, localPivot, colors) ==
  [kind       |-> "rib",
   k          |-> k,
   outer      |-> nests[k + 1],
   hole       |-> nests[k + 2],
   depth      |-> s.thickness,
   colors     |-> colors,
   localPivot |-> localPivot,
   angleDeg   |-> Mul(N(k), s.baseRotation),
   position   |-> [x |-> globalPivot.x, y |-> globalPivot.y,
                   z |-> Mul(N(k), s.thickness)]]

\* lines 281-286: the pivot marker of rib k
placedMarker(s, k, globalPivot) ==
  [kind     |-> "pivot",
   k        |-> k,
   radius   |-> Div(s.thickness, N(2)),
   position |-> [x |-> globalPivot.x, y |-> globalPivot.y,
                 z |-> Mul(N(k), s.thickness)]]

\* a polygon whose spline begins with a segment of four points at the origin
pinnedPoints == <<origin, origin, origin, Pt(N(5), N(2)), Pt(N(8), N(5)), origin>>

PlaceNests ==
  {generateNests(getCatmullRomBezierPath(p), initialConvergence, Half, Half, N(3)) :
     p \in {initialPoints, pinnedPoints}}

PlaceStates ==
  {initialState,
   [initialState EXCEPT !.gradientCenter = N(1), !.baseRotation = N(90),
                        !.thickness = Q(1, 4)],
   [initialState EXCEPT !.gradientCenter = Zero, !.pivotEnd = Q(7, 10),
                        !.pivotStart = Q(1, 4)],
   [initialState EXCEPT !.gradientCenter = Q(1, 4), !.baseRotation = N(90),
                        !.pivotStart = Q(1, 4)]}

InitPlace ==
  /\ state = <<>>
  /\ listeners = <<>>
  /\ heard = <<>>
  /\ dom = <<>>
  /\ ribsGroup = undefined
  /\ opsLeft = 1
  /\ before = <<>>
  /\ pc = "idle"
  /\ input = <<>>
  /\ output = <<>>
  /\ local = <<>>
  /\ mouse = <<>>

\* lines 123-167: update3D is called; it returns while ribsGroup is
\* undefined, finds no child to remove in the new group, returns when there
\* are fewer than two nests and computes the global pivot otherwise
beginUpdate3D ==
  /\ pc = "idle"
  /\ opsLeft > 0
  /\ opsLeft' = opsLeft - 1
  /\ \E nests \in PlaceNests, s \in PlaceStates :
       /\ input' = [op |-> "update3D", nests |-> nests, state |-> s]
       /\ IF ribsGroup = undefined \/ Len(nests) < 2
          THEN /\ local' = local
               /\ pc' = "done"
          ELSE /\ \E p \in {pivotOf(nests[1], s.pivotStart, noPivot)} :
                    local' = [k |-> 0, globalPivot |-> p]
               /\ pc' = "layer"
  /\ ribsGroup' = IF ribsGroup = undefined THEN ribsGroup
                  ELSE Group(clearRibs(ribsGroup.children))
  /\ UNCHANGED <<before, output, ribVars>>

\* lines 167-207: the shape of pair k, the extent of its outer curve
measureLayer ==
  /\ pc = "layer"
  /\ moreRibs(input.nests, local.k)
  /\ IF hasFirstSegments(input.nests, local.k)
     THEN /\ local' = [k           |-> local.k,
                       globalPivot |-> local.globalPivot,
                       extent      |-> xExtent(input.nests[local.k + 1]),
                       xs          |-> vertexXs(input.nests[local.k + 1],
                                                input.nests[local.k + 2]),
                       i           |-> 0,
                       colors      |-> <<>>]
          /\ ribsGroup' = ribsGroup
          /\ pc' = "color"
          /\ output' = output
     ELSE /\ output' = TypeError
          /\ pc' = "done"
          /\ UNCHANGED <<ribsGroup, local>>
  /\ UNCHANGED <<input, opsLeft, before, ribVars>>

\* lines 209-230: the colour of vertex i
colorVertex ==
  /\ pc = "color"
  /\ local.i < Len(local.xs)
  /\ local' = [local EXCEPT
       !.i = local.i + 1,
       !.colors = Append(local.colors,
                    vertexColor(local.xs[local.i + 1], local.extent,
                                input.state.gradientCenter))]
  /\ UNCHANGED <<ribsGroup, pc, input, opsLeft, before, output, ribVars>>

\* lines 233-287: the mesh gets its colours and its placement and is added
\* with its pivot marker
placeLayer ==
  /\ pc = "color"
  /\ ~(local.i < Len(local.xs))
  /\ \E p \in {pivotOf(input.nests[local.k + 1], input.state.pivotStart,
                       local.globalPivot)} :
       ribsGroup' = Group(ribsGroup.children \o
         <<placedRib(input.nests, input.state, local.k, local.globalPivot, p, local.colors),
           placedMarker(input.state, local.k, local.globalPivot)>>)
  /\ local' = [k |-> local.k + 1, globalPivot |-> local.globalPivot]
  /\ pc' = "layer"
  /\ UNCHANGED <<input, opsLeft, before, output, ribVars>>

\* line 167: the loop condition fails
endUpdate3D ==
  /\ pc = "layer"
  /\ ~moreRibs(input.nests, local.k)
  /\ pc' = "done"
  /\ UNCHANGED <<ribsGroup, input, local, opsLeft, before, output, ribVars>>

NextPlace ==
  \/ callInit3D
  \/ beginUpdate3D
  \/ measureLayer
  \/ colorVertex
  \/ placeLayer
  \/ endUpdate3D

SpecPlace == InitPlace /\ [][NextPlace]_vars

---------------------------------------------------------------------------
(* Claims about the spline builder (SpecSpline).                           *)

\* C1: for a control polygon of N >= 3 points the spline builder returns
\* exactly N segments, and the end point p2 of segment i is exactly the start
\* point p1 of segment (i+1) mod N.
C1_SplineClosed ==
  (pc = "done" /\ Len(input.points) >= 3) =>
    /\ Len(output) = Len(input.points)
    /\ \A i \in 1..Len(output) : output[i].p2 = output[(i % Len(output)) + 1].p1

C1_Witness ==
  /\ pc = "done"
  /\ Len(input.points) = 4
  /\ Len(output) = 4
  /\ output[4].p2 = output[1].p1
  /\ output[1].p1 # output[2].p1

\* C8: for a control polygon of 0, 1 or 2 points the spline builder returns
\* the empty curve.
C8_FewPointsEmpty ==
  (pc = "done" /\ Len(input.points) < 3) => output = <<>>

C8_Witness == pc = "done" /\ Len(input.points) = 2 /\ output = <<>>

---------------------------------------------------------------------------
(* Claims about the nest generator (SpecNests).                            *)

boundingWidth(curve) == getPathBBox(curve).width

boundingHeight(curve) == getPathBBox(curve).height

segmentFields == {"p1", "c1", "c2", "p2"}

\* C2: every curve after index 0 is its predecessor under P' = C + s*(P - C),
\* with the step's one scale s and the one convergence point C, on all four
\* points of every segment; a curve point equal to C stays at C.
C2_AffineSteps ==
  pc = "done" =>
    \A k \in 1..(Len(output) - 1) :
      /\ Len(output[k + 1]) = Len(output[k])
      /\ \A i \in 1..Len(output[k]) : \A f \in segmentFields :
           LET P  == output[k][i][f]
               P2 == output[k + 1][i][f]
               C  == input.C
               s  == local.scales[k]
           IN  /\ P2.x = Add(C.x, Mul(s, Sub(P.x, C.x)))
               /\ P2.y = Add(C.y, Mul(s, Sub(P.y, C.y)))
               /\ (P = C => P2 = C)

C2_Witness ==
  /\ pc = "done"
  /\ Len(output) >= 3
  /\ output[1][1].p1 = input.C
  /\ output[3][1].p1 = input.C
  /\ output[3][1].c1 # output[1][1].c1
  /\ output[3][1].c1 # input.C

\* C3: every curve except the last has bounding width and height >= minSize,
\* and unless the iteration cap was reached the last curve has width or
\* height < minSize.
C3_SuccessorOnlyAboveMinSize ==
  pc = "done" =>
    LET n == Len(output)
    IN  /\ \A k \in 1..(n - 1) :
             /\ Ge(boundingWidth(output[k]), input.minSize)
             /\ Ge(boundingHeight(output[k]), input.minSize)
        /\ (local.safety < SafetyCap =>
              \/ Lt(boundingWidth(output[n]), input.minSize)
              \/ Lt(boundingHeight(output[n]), input.minSize))

C3_Witness ==
  /\ pc = "done"
  /\ Len(output) >= 3
  /\ local.safety < SafetyCap
  /\ Ge(boundingWidth(output[Len(output)]), input.minSize)
  /\ Lt(boundingHeight(output[Len(output)]), input.minSize)

\* C4: generateNests returns for every input, scales >= 1 and thresholds <= 0
\* included; it returns between 1 and 101 curves, the first one the base
\* curve, and at the iteration cap it returns the curves accumulated so far.
C4_TerminatesBounded ==
  /\ <>(pc = "done")
  /\ [](pc = "done" =>
          /\ Len(output) >= 1
          /\ Len(output) <= SafetyCap + 1
          /\ output[1] = getCatmullRomBezierPath(input.points)
          /\ Len(output) = local.safety + 1
          /\ output = generateNests(getCatmullRomBezierPath(input.points), input.C,
                                    input.startScale, input.endScale, input.minSize))

C4_Witness ==
  /\ pc = "done"
  /\ Len(output) = SafetyCap + 1
  /\ Ge(input.startScale, N(1))
  /\ output[1] = getCatmullRomBezierPath(input.points)

\* t = clamp((currentWidth - minSize)/(baseWidth - minSize), 0, 1) when
\* baseWidth > minSize and t = 0 otherwise, of the curve k of the nests
claimedT(k) ==
  LET cw == boundingWidth(local.nests[k])
      bw == boundingWidth(local.nests[1])
      m  == input.minSize
      r  == Div(Sub(cw, m), Sub(bw, m))
  IN  IF Gt(bw, m)
      THEN (IF Lt(r, Zero) THEN Zero ELSE IF Gt(r, N(1)) THEN N(1) ELSE r)
      ELSE Zero

\* the rounding of the results allowed between two numbers that are equal in
\* real arithmetic: 2^-40
RoundingTolerance == [sg |-> 1, m |-> <<1>>, e |-> -40]

\* a and b are the same number, or numbers no further apart than the tolerance
closeTo(a, b) == a = b \/ Le(Abs(Sub(a, b)), RoundingTolerance)

\* C5 as claimed: the scale of each iteration is
\* s = endScale + (startScale - endScale)*t, t = clamp((currentWidth -
\* minSize)/(baseWidth - minSize), 0, 1) when baseWidth > minSize and t = 0
\* otherwise; s lies between startScale and endScale, and the first step uses
\* exactly startScale when baseWidth > minSize.
C5_BlendedScaleBetweenScales ==
  pc \in {"loop", "done"} =>
    \A k \in 1..Len(local.scales) :
      LET s == local.scales[k]
      IN  /\ s = Add(input.endScale, Mul(Sub(input.startScale, input.endScale), claimedT(k)))
          /\ Le(MathMin(input.startScale, input.endScale), s)
          /\ Le(s, MathMax(input.startScale, input.endScale))
          /\ (k = 1 /\ Gt(boundingWidth(local.nests[1]), input.minSize)
                => s = input.startScale)

\* C5 as amended: the scale of each iteration is the floating-point value of
\* endScale + (startScale - endScale)*t with that t; it lies between
\* startScale and endScale up to the rounding of the difference and the sum,
\* and on the first step, when baseWidth > minSize, t is exactly 1 and s is
\* endScale + (startScale - endScale) as rounded, which is startScale up to
\* that rounding.
C5_BlendedScale ==
  pc \in {"loop", "done"} =>
    \A k \in 1..Len(local.scales) :
      LET s    == local.scales[k]
          low  == MathMin(input.startScale, input.endScale)
          high == MathMax(input.startScale, input.endScale)
      IN  /\ s = Add(input.endScale, Mul(Sub(input.startScale, input.endScale), claimedT(k)))
          /\ Le(low, s) \/ closeTo(low, s)
          /\ Le(s, high) \/ closeTo(s, high)
          /\ (k = 1 /\ Gt(boundingWidth(local.nests[1]), input.minSize)) =>
                /\ claimedT(k) = N(1)
                /\ s = Add(input.endScale, Sub(input.startScale, input.endScale))
                /\ closeTo(s, input.startScale)

\* generateNests has returned from startScale 0.9 and endScale 0.3: the first
\* scale is above 0.9 by a rounding error, the second between the two
C5_Witness ==
  /\ pc = "done"
  /\ Len(local.scales) >= 2
  /\ input.startScale = Q(9, 10)
  /\ input.endScale = Q(3, 10)
  /\ Gt(boundingWidth(output[1]), input.minSize)
  /\ Gt(local.scales[1], input.startScale)
  /\ Gt(local.scales[2], input.endScale)
  /\ Lt(local.scales[2], input.startScale)

properFraction(s) == Gt(s, Zero) /\ Lt(s, N(1))

decreaseAboveRounding(s, size) == Gt(Mul(Sub(N(1), s), size), RoundingTolerance)

C7_TwentyOrMore ==
  (pc = "done" /\ input = scenarioInput) =>
    /\ Len(output[1]) = 4
    /\ boundingWidth(output[1]) = N(6)
    /\ local.safety < SafetyCap
    /\ Lt(boundingWidth(output[Len(output)]), input.minSize)
    /\ Len(output) >= 20

\* C7 amended: in that scenario the spline has 4 segments of bounding width 6
\* and generateNests stops on a width below 1.0, not at the cap, with exactly
\* 19 curves (18 scalings by 0.9: 6 * 0.9^17 >= 1 > 6 * 0.9^18).
C7_NineteenCurves ==
  (pc = "done" /\ input = scenarioInput) =>
    /\ Len(output[1]) = 4
    /\ boundingWidth(output[1]) = N(6)
    /\ local.safety < SafetyCap
    /\ Lt(boundingWidth(output[Len(output)]), input.minSize)
    /\ Ge(boundingWidth(output[Len(output) - 1]), input.minSize)
    /\ Len(output) = 19

C7_Witness == pc = "done" /\ input = scenarioInput /\ Len(output) = 19

\* the calls of the store that C9 and C10 are about
pointActions == {"addPoint", "updatePoint", "deletePoint"}

stateActions ==
  pointActions \cup
  {"setConvergence", "setViewport", "setStartScale", "setEndScale", "setMinSize",
   "setEmphasis", "setViewMode", "setThickness", "setZRise", "setBaseRotation",
   "setPivotStart", "setPivotEnd", "setGradientCenter", "setColorStart",
   "setColorEnd", "setColorSides"}

\* a state action has changed the state and has returned or thrown
stateChangedAtAll ==
  /\ pc = "idle"
  /\ input # <<>>
  /\ input.op \in stateActions
  /\ state # before

\* a state action has changed the state and has returned
stateChanged == stateChangedAtAll /\ output = nothing

\* a state action has changed the state and a listener's exception has left it
stateChangedAndThrown == stateChangedAtAll /\ output # nothing

\* the listener that threw is the first of the listeners that throw; it and
\* the listeners before it were called once with the state as it is now, the
\* ones after it were not called
heardUpToThrower ==
  \E thrower \in 1..Len(listeners) :
    /\ listeners[thrower] = "faulty"
    /\ \A i \in 1..(thrower - 1) : listeners[i] # "faulty"
    /\ \A i \in 1..thrower : heard[i].calls = 1 /\ heard[i].seen = state
    /\ \A i \in (thrower + 1)..Len(listeners) : heard[i].calls = 0

\* render is among the subscribed callbacks
renderSubscribed ==
  \E i \in 1..Len(listeners) : listeners[i] = "render"

\* every subscribed callback got the call under way once, with the state as it
\* is now
everyListenerHeardOnce ==
  \A i \in 1..Len(listeners) : heard[i].calls = 1 /\ heard[i].seen = state

\* the nests of the state as it is now
currentNests ==
  generateNests(getCatmullRomBezierPath(state.points), state.convergence,
                state.startScale, state.endScale, state.minSize)

\* C9: whatever calls of addPoint, updatePoint and deletePoint (and of the
\* other state actions) were made from the initial four-point state,
\* state.points has at least three points.
C9_AtLeastThreePoints ==
  Len(state.points) >= 3

\* a deletePoint on a polygon of three points, itself left by a deletePoint,
\* has returned and the three points are still there
C9_Witness ==
  /\ pc = "idle"
  /\ input # <<>>
  /\ input.op = "deletePoint"
  /\ Len(before.points) = 3
  /\ Len(state.points) = 3
  /\ Len(initialState.points) = 4

\* the page and the rib group are as render leaves them from the state as it
\* is now, the rib group in every view mode
allArtifactsCurrent ==
  \A nests \in {currentNests} :
    /\ dom = renderPage(state, nests, dom)
    /\ ribsGroup = update3D(Group(<<>>), nests, state).ribsGroup

\* the page is as render leaves it from the state as it is now, and in the 3d
\* view the rib group too
shownArtifactsCurrent ==
  \A nests \in {currentNests} :
    /\ dom = renderPage(state, nests, dom)
    /\ state.viewMode = "3d" => ribsGroup = update3D(Group(<<>>), nests, state).ribsGroup

\* the render listener was called in the state action
renderHeard ==
  \E i \in 1..Len(listeners) : listeners[i] = "render" /\ heard[i].calls = 1

\* C10 as claimed: once a state action has changed the state, every listener
\* was called once with the current state and, render being subscribed, the 2D
\* page and the 3D rib layers are those of that state.
C10_AllArtifactsCurrent ==
  stateChangedAtAll =>
    /\ everyListenerHeardOnce
    /\ renderSubscribed => allArtifactsCurrent

\* C10 as amended: a state action that changes the state calls the listeners
\* in subscription order with the current state, each once, up to and
\* including the first that throws: all of them when it returns, and when it
\* throws the listeners after the thrower not at all. render is the first
\* listener of the loaded page, so it is called in every state action there,
\* and whenever it was called the 2D page is that of the current state, and
\* the 3D rib layers too when the state's viewMode is '3d'.
C10_ListenersUpToThrowerAndShownArtifactsCurrent ==
  /\ stateChanged => everyListenerHeardOnce
  /\ stateChangedAndThrown => heardUpToThrower
  /\ (stateChangedAtAll /\ dom # <<>>) => (listeners[1] = "render" /\ renderHeard)
  /\ (stateChangedAtAll /\ renderHeard) => shownArtifactsCurrent

\* on the loaded page a setViewMode('3d') has changed the state, render has
\* put rib layers into the scene and the listener after it has thrown
C10_Witness ==
  /\ stateChangedAndThrown
  /\ listeners = <<"render", "faulty">>
  /\ input.op = "setViewMode"
  /\ state.viewMode = "3d"
  /\ ribsGroup.children # <<>>
  /\ dom.shown = "canvas3d"

\* getPathPropertiesAt has returned a sample of a curve that is not empty
sampled == pc = "done" /\ Len(input.pathSegs) > 0

\* whole numbers added to s in C12
SampleShifts == {-1, 2}

\* the claim as stated: the sample for s + k is the sample for s, for every s
C12_SameSampleEveryPosition ==
  sampled =>
    \A k \in SampleShifts :
      getPathPropertiesAt(input.pathSegs, Add(input.s, N(k))) = output

closePoint(p, q) == closeTo(p.x, q.x) /\ closeTo(p.y, q.y)

\* two samples that are the same up to the rounding of their numbers
closeSample(a, b) ==
  /\ closePoint(a.point, b.point)
  /\ closePoint(a.normal, b.normal)
  /\ closePoint(a.tangent, b.tangent)

\* two wrapped positions no further apart than the tolerance on the closed
\* curve, where the position just below 1 is next to 0
closeAround(v, w) == closeTo(v, w) \/ closeTo(Abs(Sub(v, w)), N(1))

\* the length of a fine step from which C12 calls a sample regular
RegularStep == [sg |-> 1, m |-> <<1>>, e |-> -6]

\* every segment of the curve sampled is longer than the tolerance
regularCurve == \A i \in 1..Len(local.lengths) : Gt(local.lengths[i], RoundingTolerance)

\* the chord of the fine step the walk has stopped in
reachedStep == chordTo(local.seg, local.prev, local.i, fineSteps).stepLen

\* the length of the tangent at the local parameter of the sample
tangentLength(tan) == MathHypot(tan.x, tan.y)

\* the sample returned lies in a fine step at least RegularStep long, where
\* the tangent is at least 1 long
regularSample ==
  /\ regularCurve
  /\ local.reached
  /\ Ge(reachedStep, RegularStep)
  /\ Ge(tangentLength(getBezierTangent(local.seg.p1, local.seg.c1, local.seg.c2,
                                       local.seg.p2, local.t)), N(1))

\* the residual target is within the tolerance of 0, the start of the segment
startsSegment(segTarget) == Le(Abs(segTarget), RoundingTolerance)

\* the residual target is within the tolerance of the length of the segment
endsSegment(lengths, segIdx, segTarget) ==
  Ge(segTarget, Sub(lengths[segIdx + 1], RoundingTolerance))

\* one place is the end of a segment and the other the start of the segment
\* after it on the closed curve
acrossBoundary(lengths, early, late) ==
  /\ endsSegment(lengths, early.segIdx, early.segTarget)
  /\ startsSegment(late.segTarget)
  /\ late.segIdx = (early.segIdx + 1) % Len(lengths)

\* the place located for s + k is in the segment of the sample returned, at a
\* wrapped position within the tolerance of its wrapped position
sameSide(at, w) == at.segIdx = local.segIdx /\ closeTo(w, local.s)

\* C12: the sampler wraps s into [0,1); for an integer k the wrapped
\* positions of s and s + k are the same number when s is a multiple of 1/8
\* (so 1 samples like 0 and -0.25 like 0.75) and differ by rounding
\* otherwise, the position just below 1 being next to 0. Equal wrapped
\* positions give the same sample. When the two wrapped positions differ and
\* every segment is longer than the rounding, either they select the same
\* segment, and the two samples differ by rounding only where the fine step
\* is at least 1/64 long and the tangent at least 1 long, or they lie on the
\* two sides of the joint of two consecutive segments: one sample is taken
\* at the end of a segment (residual target within rounding of its length)
\* and the other at the start of the next (residual target within rounding
\* of 0), and these two samples are not the same point.
C12_SamplerPeriodic ==
  sampled =>
    /\ Ge(local.s, Zero)
    /\ Lt(local.s, N(1))
    /\ \A k \in SampleShifts :
         LET at == locate(input.pathSegs, Add(input.s, N(k)))
             w == wrap(Add(input.s, N(k)))
             shifted == sampleLocated(input.pathSegs, at)
         IN  /\ Ge(w, Zero)
             /\ Lt(w, N(1))
             /\ closeAround(w, local.s)
             /\ input.s \in EighthPositions => w = local.s
             /\ w = local.s => shifted = output
             /\ shifted = getPathPropertiesAt(input.pathSegs, Add(input.s, N(k)))
             /\ (regularSample /\ sameSide(at, w)) => closeSample(shifted, output)
             /\ (regularCurve /\ ~sameSide(at, w)) =>
                  \/ acrossBoundary(local.lengths, local, at)
                  \/ acrossBoundary(local.lengths, at, local)

\* two points further apart than 2^-11 in x or in y
farApart(p, q) ==
  \/ Gt(Abs(Sub(p.x, q.x)), [sg |-> 1, m |-> <<1>>, e |-> -11])
  \/ Gt(Abs(Sub(p.y, q.y)), [sg |-> 1, m |-> <<1>>, e |-> -11])

\* a sample at 0.25 + 2^-53 of a curve of regular segments: its wrapped
\* position is 0.25, the end of segment 0, the wrapped position of s - 1 is
\* 0.25 + 2^-53, the start of segment 1, and the two points are further
\* apart than 2^-11
C12_Witness ==
  /\ sampled
  /\ regularSample
  /\ input.s = JustAboveQuarter
  /\ local.s = Q(1, 4)
  /\ local.segIdx = 0
  /\ wrap(Add(input.s, N(-1))) = JustAboveQuarter
  /\ locate(input.pathSegs, Add(input.s, N(-1))).segIdx = 1
  /\ farApart(getPathPropertiesAt(input.pathSegs, Add(input.s, N(-1))).point,
              output.point)

\* C13: a sample at s = 0 of a curve that is not empty is taken in segment 0
\* at t = 0, and its point is the p1 of the first segment.
C13_StartPoint ==
  (sampled /\ local.s = Zero) =>
    /\ local.segIdx = 0
    /\ local.t = Zero
    /\ output.point = input.pathSegs[1].p1

\* the lengths l_0 .. l_(i-1) summed in index order
cumulative(lengths, i) == sumOf(SubSeq(lengths, 1, i))

\* the claim as stated: the residual target is at most the length l_i of the
\* segment selected
C17_ResidualWithinSegment ==
  (pc \in {"walk", "sample", "done"} /\ Len(input.pathSegs) > 0) =>
    /\ Ge(local.segTarget, Zero)
    /\ Le(local.segTarget, local.lengths[local.segIdx + 1])

\* C17: the segment search selects the least index i with
\* l_0 + ... + l_i >= s * L, the sums as the code rounds them, and the
\* residual target of the fine walk, s * L - (l_0 + ... + l_(i-1)), is at
\* least 0 and at most l_i up to the rounding of the sums.
C17_FirstSegmentReachingTarget ==
  (pc \in {"walk", "sample", "done"} /\ Len(input.pathSegs) > 0) =>
    /\ local.targetLen = Mul(local.s, local.totalLength)
    /\ Ge(cumulative(local.lengths, local.segIdx + 1), local.targetLen)
    /\ \A j \in 1..local.segIdx : Lt(cumulative(local.lengths, j), local.targetLen)
    /\ local.segTarget = Sub(local.targetLen, cumulative(local.lengths, local.segIdx))
    /\ Ge(local.segTarget, Zero)
    /\ Le(local.segTarget, Add(local.lengths[local.segIdx + 1], RoundingTolerance))

\* the target is exactly the cumulative length at the end of a segment that
\* has a successor: the tie goes to the earlier segment
C17_Witness ==
  /\ sampled
  /\ local.segIdx > 0
  /\ local.segIdx + 1 < Len(local.lengths)
  /\ cumulative(local.lengths, local.segIdx + 1) = local.targetLen
  /\ local.segTarget = local.lengths[local.segIdx + 1]
  /\ Gt(local.segTarget, Zero)

\* C18: the local parameter t the fine walk leaves is a number in [0,1]
\* (interpolated between the bracketing steps when the residual target is
\* reached, 0 when it is not), without a division by zero.
C18_LocalParameterDefined ==
  (pc \in {"sample", "done"} /\ Len(input.pathSegs) > 0) =>
    /\ local.t # NaN
    /\ Ge(local.t, Zero)
    /\ Le(local.t, N(1))
    /\ ~local.reached => local.t = Zero

\* a call of update3D has returned
ribsBuilt == pc = "idle" /\ input # <<>> /\ input.op = "update3D"

\* the children of the rib group, none while there is no group
ribChildren == IF ribsGroup = undefined THEN <<>> ELSE ribsGroup.children

\* the rib meshes among the children of the group
ribMeshes == SelectSeq(ribChildren, LAMBDA child : child.kind = "rib")

\* the pivot markers among the children of the group
ribMarkers == SelectSeq(ribChildren, LAMBDA child : child.kind = "pivot")

\* the M - 1 layers of M curves, none for M <= 1
layersOf(nests) == IF Len(nests) <= 1 THEN 0 ELSE Len(nests) - 1

\* the rib meshes are those of the adjacent pairs of the last call's nests
oneRibPerAdjacentPair ==
  /\ Len(ribMeshes) = layersOf(input.nests)
  /\ \A k \in 0..(Len(input.nests) - 2) :
       /\ ribMeshes[k + 1].outer = input.nests[k + 1]
       /\ ribMeshes[k + 1].hole = input.nests[k + 2]

\* C11 as claimed: every call of update3D with M curves leaves M - 1 rib
\* layers, layer k of nests[k] as outer boundary and nests[k + 1] as hole, and
\* none for M <= 1.
C11_OneRibPerAdjacentPairEveryCall ==
  ribsBuilt => oneRibPerAdjacentPair

\* C11 as amended: a call of update3D with M curves made once init3D has
\* created the rib group builds M - 1 rib layers, layer k of nests[k] as outer
\* boundary and nests[k + 1] as hole, and none for M <= 1; a call made while
\* ribsGroup is undefined builds nothing and leaves it undefined.
C11_OneRibPerAdjacentPair ==
  ribsBuilt =>
    IF before = undefined THEN ribsGroup = undefined
    ELSE ribsGroup # undefined /\ oneRibPerAdjacentPair

\* update3D has returned from four curves with three rib meshes, in the group
\* init3D has created
C11_Witness ==
  /\ ribsBuilt
  /\ before # undefined
  /\ Len(input.nests) = 4
  /\ Len(ribMeshes) = 3

\* the children of the group are the rib mesh and the pivot marker of each
\* adjacent pair of the last call's nests, in the order of the pairs, built
\* with the last call's state
onlyLastCallsRibs ==
  /\ Len(ribChildren) = 2 * layersOf(input.nests)
  /\ \A k \in 0..(Len(input.nests) - 2) :
       /\ ribChildren[2 * k + 1].kind = "rib"
       /\ ribChildren[2 * k + 1].outer = input.nests[k + 1]
       /\ ribChildren[2 * k + 1].hole = input.nests[k + 2]
       /\ ribChildren[2 * k + 1].depth = input.state.thickness
       /\ ribChildren[2 * k + 1].zStep = Mul(N(k), input.state.thickness)
       /\ ribChildren[2 * k + 1].angleDeg = Mul(N(k), input.state.baseRotation)
       /\ ribChildren[2 * k + 2].kind = "pivot"
       /\ ribChildren[2 * k + 2].radius = Div(input.state.thickness, N(2))
       /\ ribChildren[2 * k + 2].zStep = Mul(N(k), input.state.thickness)

\* C19 as claimed: after any sequence of update3D calls the group holds
\* exactly the M - 1 rib meshes and M - 1 pivot markers of the last call's M
\* curves, or nothing when M < 2.
C19_OnlyLastCallsRibsEveryCall ==
  ribsBuilt => onlyLastCallsRibs

\* C19 as amended: after any sequence of update3D calls made once init3D has
\* created the rib group, the group holds exactly the M - 1 rib meshes and
\* M - 1 pivot markers of the last call's M curves, or nothing when M < 2, and
\* nothing of an earlier call remains; a call made while ribsGroup is
\* undefined returns at once and there is no group to hold anything.
C19_OnlyLastCallsRibs ==
  ribsBuilt =>
    /\ output = nothing
    /\ IF before = undefined THEN ribsGroup = undefined
       ELSE ribsGroup # undefined /\ onlyLastCallsRibs

\* a call that found the six children of an earlier call has returned with
\* the two children of its own two curves
C19_Witness ==
  /\ ribsBuilt
  /\ before # undefined
  /\ Len(before.children) = 6
  /\ Len(input.nests) = 2
  /\ Len(ribChildren) = 2

\* C16: an empty base curve passes every stage without an error:
\* generateNests returns the empty curve alone and scales nothing, pathToSvgD
\* gives the empty string, getPathPropertiesAt gives null, update3D builds
\* nothing.
C16_EmptyCurveDegradesSilently ==
  (pc = "done" /\ Len(input.points) < 3) =>
    /\ output = <<<<>>>>
    /\ local.safety = 0
    /\ \A k \in 1..Len(output) :
         /\ pathToSvgD(output[k]) = ""
         /\ \A s \in SamplePositions : getPathPropertiesAt(output[k], s) = "null"
    /\ \A children \in {<<>>, <<pivotMarker(initialState, 0)>>} :
         update3D(Group(children), output, initialState)
           = [ribsGroup |-> Group(<<>>), thrown |-> nothing]
    /\ update3D(undefined, output, initialState) = [ribsGroup |-> undefined, thrown |-> nothing]

\* generateNests has returned from the spline of two points, with a
\* threshold of 0
C16_Witness ==
  /\ pc = "done"
  /\ Len(input.points) = 2
  /\ input.minSize = Zero
  /\ Len(output) = 1
  /\ Len(output[1]) = 0

\* p2 of each segment is p1 of the next, cyclically
closed(curve) ==
  \A i \in 1..Len(curve) : curve[i].p2 = curve[(i % Len(curve)) + 1].p1

\* C20: every curve generateNests has pushed has as many segments as the base
\* curve, and is closed when the base curve is.
C20_NestsKeepSegmentsAndClosure ==
  (pc \in {"loop", "done"}) =>
    \A k \in 1..Len(local.nests) :
      /\ Len(local.nests[k]) = Len(local.nests[1])
      /\ closed(local.nests[1]) => closed(local.nests[k])

\* generateNests has returned three curves or more of a closed base curve of
\* four segments, scaled by a half about a point that is not the origin
C20_Witness ==
  /\ pc = "done"
  /\ Len(output) >= 3
  /\ Len(output[1]) = 4
  /\ closed(output[1])
  /\ output[2] # output[3]
  /\ input.C = initialConvergence
  /\ input.startScale = Q(1, 2)

\* no coordinate of the point is NaN
isLocation(p) == p.x # NaN /\ p.y # NaN /\ p.z # NaN

PivotEnds == {Q(2, 10), Q(7, 10)}

\* C14: translate(-localPivot), rotate about Z by k*baseRotation, position at
\* (globalPivot, k*thickness) brings the pivot of every layer (the point at
\* pivotStart on its outer curve) to the location of the global pivot at
\* height k*thickness, whatever the rotation, and pivotEnd has no part in it.
C14_PivotsCoincide ==
  \A j \in 1..Len(ribChildren) :
    ribChildren[j].kind = "rib" =>
      LET rib   == ribChildren[j]
          world == worldOf(rib, rib.localPivot)
      IN  /\ isLocation(world)
          /\ world = [x |-> local.globalPivot.x, y |-> local.globalPivot.y,
                      z |-> Mul(N(rib.k), input.state.thickness)]
          /\ \A e \in PivotEnds :
               rib = placedRib(input.nests, [input.state EXCEPT !.pivotEnd = e], rib.k,
                               local.globalPivot, rib.localPivot, rib.colors)

\* C15: for a gradientCenter in [0,1] and a vertex whose normalized x is in
\* [0,1] the shift is a number, in [0, 0.5] below the center and in [0.5, 1]
\* at or above it, and the colour factor is a number in [0,1].
C15_GradientWarpDefined ==
  pc = "color" =>
    \A i \in 1..Len(local.colors) :
      LET c  == local.colors[i]
          gc == input.state.gradientCenter
      IN  (Ge(gc, Zero) /\ Le(gc, N(1)) /\ Ge(c.normalized, Zero) /\ Le(c.normalized, N(1))) =>
            /\ c.shifted # NaN
            /\ Lt(c.normalized, gc) => (Ge(c.shifted, Zero) /\ Le(c.shifted, Half))
            /\ ~Lt(c.normalized, gc) => (Ge(c.shifted, Half) /\ Le(c.shifted, N(1)))
            /\ c.factor # NaN
            /\ Ge(c.factor, Zero)
            /\ Le(c.factor, N(1))

---------------------------------------------------------------------------
(* Claims about the editing of the control polygon (SpecAdd, SpecStore).   *)

\* the last call of the store was a call of op
lastCall(op) == input # <<>> /\ input.op = op

\* the distance of p to edge i of the polygon, i from 0
edgeDistance(points, p, i) ==
  distToSegment(p, points[i + 1], points[((i + 1) % Len(points)) + 1])

\* the first edge in index order no edge is nearer to p than
firstNearestEdge(points, p) ==
  CHOOSE i \in 0..(Len(points) - 1) :
    /\ \A j \in 0..(Len(points) - 1) : Le(edgeDistance(points, p, i), edgeDistance(points, p, j))
    /\ \A j \in 0..(i - 1) : Lt(edgeDistance(points, p, i), edgeDistance(points, p, j))

\* C21: addPoint(x, y) on a polygon of n >= 3 points puts the new point at
\* index i + 1, where edge (i, (i + 1) mod n) is the first edge in index order
\* with the least distance to (x, y); the points there were keep their values
\* and their order and the length grows by one. On fewer than 3 points the new
\* point is appended.
C21_InsertAfterFirstNearestEdge ==
  lastCall("addPoint") =>
    LET p   == input.args[1]
        old == before.points
        new == state.points
    IN  /\ Len(new) = Len(old) + 1
        /\ IF Len(old) >= 3
           THEN LET i == firstNearestEdge(old, p)
                IN  /\ new[i + 2] = p
                    /\ \A k \in 1..(i + 1) : new[k] = old[k]
                    /\ \A k \in (i + 2)..Len(old) : new[k + 1] = old[k]
           ELSE new = Append(old, p)

\* addPoint has returned after it put a point that two edges are equally near
\* to behind the first of them
C21_Witness ==
  /\ lastCall("addPoint")
  /\ pc = "idle"
  /\ Len(before.points) >= 3
  /\ \E i \in 0..(Len(before.points) - 1) :
       /\ i # firstNearestEdge(before.points, input.args[1])
       /\ edgeDistance(before.points, input.args[1], i) =
            edgeDistance(before.points, input.args[1],
                         firstNearestEdge(before.points, input.args[1]))
  /\ heard[1].calls = 1

\* the last call of the store left the state as it was and called no listener
refused ==
  /\ state = before
  /\ pc = "idle"
  /\ \A i \in 1..Len(heard) : heard[i].calls = 0

\* C22: deletePoint on a polygon of exactly 3 points, and updatePoint with an
\* index outside [0, points.length), leave the whole state as it was and call
\* no listener.
C22_RefusedCallsChangeNothing ==
  /\ (lastCall("deletePoint") /\ Len(before.points) = 3) => refused
  /\ (lastCall("updatePoint") /\ input.args[1] \notin 0..(Len(before.points) - 1)) => refused

\* deletePoint was called on 3 points while a listener was subscribed
C22_Witness ==
  /\ lastCall("deletePoint")
  /\ Len(before.points) = 3
  /\ Len(listeners) >= 1
  /\ refused

\* C23: after every editor event and state action selectedPointIndex is -1 or
\* the index of a control point that exists, so that the point render and
\* updateUIControls read at state.points[selectedPointIndex] is there.
C23_SelectionValid ==
  \/ state.selectedPointIndex = -1
  \/ /\ 0 <= state.selectedPointIndex
     /\ state.selectedPointIndex < Len(state.points)

\* the last control point was selected by a mousedown and then deleted with
\* the delete button; render has run on the polygon of three points
C23_Witness ==
  /\ pc = "idle"
  /\ lastCall("deletePoint")
  /\ before.selectedPointIndex = Len(state.points)
  /\ input.args = <<before.selectedPointIndex>>
  /\ state.selectedPointIndex = -1
  /\ dom.controls.disabled

\* the editor is idle: nothing is dragged and the view is not panned
editorIdle ==
  /\ ~state.isDragging
  /\ state.dragTarget = "null"
  /\ state.dragIndex = -1
  /\ ~mouse.isPanning

\* C24: isDragging is true exactly when dragTarget is 'point' or
\* 'convergence'; with dragTarget 'point' dragIndex is the index of a control
\* point that exists, and otherwise it is -1; and a mouseup leaves the editor
\* idle.
C24_DragStateConsistent ==
  /\ state.isDragging <=> state.dragTarget \in {"point", "convergence"}
  /\ state.dragTarget = "point" =>
       0 <= state.dragIndex /\ state.dragIndex < Len(state.points)
  /\ state.dragTarget # "point" => state.dragIndex = -1
  /\ lastCall("mouseup") => editorIdle

\* the k-th event of the double-click is handled in this step
step(k) == opsLeft = Len(doubleClick) - k + 1 /\ opsLeft' = opsLeft - 1

\* the place of the last mousedown, in inches
clicked ==
  getMousePt([clientX |-> mouse.mouseDownPos.x, clientY |-> mouse.mouseDownPos.y])

\* C25: a double-click on empty canvas leaves the control polygon as it was:
\* the two mousedowns and mouseups keep the points, the first click adds the
\* clicked point and nothing else, the second click changes nothing and calls
\* no state action, and the dblclick gives back the points as they were when
\* the first click called addPoint, in their order.
C25_DoubleClickRestoresPolygon ==
  [][/\ step(1) \/ step(2) \/ step(4) \/ step(5) =>
          state'.points = state.points /\ before' = before
     /\ step(3) =>
          /\ before' = state
          /\ \E i \in 0..Len(state.points) :
               state'.points = splice(state.points, i, 0, <<clicked>>)
     /\ step(6) => state' = state /\ before' = before /\ pc' = "idle"
     /\ step(7) =>
          /\ Len(state.points) = Len(before.points) + 1
          /\ state'.points = before.points]_vars

\* a double-click on a polygon of three points is over: its last event has
\* deleted a point and render has run on the three points that are left
C25_Witness ==
  /\ opsLeft = 0
  /\ pc = "idle"
  /\ lastCall("deletePoint")
  /\ Len(before.points) = 4
  /\ Len(state.points) = 3
  /\ Len(dom.handles) = 3
  /\ state.selectedPointIndex = -1

====
